---- MODULE Spec2Model ----
(***************************************************************************)
(* TourneyController: the reconciliation engine.                           *)
(*                                                                         *)
(* The controller polls the scheduling database, and for every             *)
(* (match, round) either ensures a game server (state secret, rendered     *)
(* workload objects, ConnectionDetails row, notifications) or tears it     *)
(* down.  The model holds the three stateful collaborators (database,      *)
(* cluster, identity registry) and the controller's position in a tick.    *)
(*                                                                         *)
(* Strings are sequences of one-character strings; an optional value is    *)
(* a sequence of length 0 (absent) or 1 (present).                         *)
(***************************************************************************)
EXTENDS Integers, Sequences, FiniteSets, TLC

VARIABLES
    cfg,        \* config.Config: the knobs the reconciler reads (fixed after Load)
    nodes,      \* cluster: the node list with each node's status addresses
    steamUp,    \* identity registry: whether its HTTP API answers
    rounds,     \* database: league_match_rounds ids per match, in query order
    manual,     \* database: league_matches.manual_not_done, per match
    outcome,    \* database: league_match_rounds.has_outcome, per (match, round)
    details,    \* database: matches_server_details row, per (match, round)
    notes,      \* database: user_notifications rows inserted, per (match, round)
    secrets,    \* cluster: the '<release>-settings' secret, per release
    objects,    \* cluster: the rendered objects that exist, per release
    accounts,   \* identity registry: non-deleted accounts, per memo
    pc,         \* controller: where the tick stands ("idle", "match", "rounds")
    mi,         \* controller: index into the fetched match list
    ri,         \* controller: index into the fetched round list
    fetched,    \* controller: the match and round rows the tick has fetched
    faults,     \* environment: whether external calls may still fail and the process crash
    ev,         \* the last operation performed and what it did
    fin,        \* input of a pure-function application
    fout,       \* result of a pure-function application
    run,        \* controller: where Run stands, its ticker and its stop signal
    peers       \* two controller processes on one round: where each stands in ensureRound

vars == <<cfg, nodes, steamUp, rounds, manual, outcome, details, notes, secrets,
          objects, accounts, pc, mi, ri, fetched, faults, ev, fin, fout, run, peers>>

stores == <<details, notes, secrets, objects, accounts>>

-----------------------------------------------------------------------------
(* Strings                                                                 *)

S(str) == <<str>>

Space == " "

\* strings.TrimSpace, leading side
RECURSIVE TrimLeft(_)
TrimLeft(s) ==
    IF s = <<>> THEN <<>>
    ELSE IF Head(s) = Space THEN TrimLeft(Tail(s)) ELSE s

\* strings.TrimSpace, trailing side
RECURSIVE TrimRight(_)
TrimRight(s) ==
    IF s = <<>> THEN <<>>
    ELSE IF s[Len(s)] = Space THEN TrimRight(SubSeq(s, 1, Len(s) - 1)) ELSE s

TrimSpace(s) == TrimRight(TrimLeft(s))

LowerOf(c) ==
    CASE c = "A" -> "a"
      [] c = "B" -> "b"
      [] c = "C" -> "c"
      [] OTHER -> c

\* strings.ToLower
ToLower(s) == [i \in 1..Len(s) |-> LowerOf(s[i])]

\* strings.Contains
Contains(s, sub) ==
    \E i \in 0..(Len(s) - Len(sub)) : SubSeq(s, i + 1, i + Len(sub)) = sub

\* Variant of preferValue: the candidates are compared and returned untrimmed
RECURSIVE preferValueUntrimmed(_)
preferValueUntrimmed(candidates) ==
    IF candidates = <<>> THEN <<>>
    ELSE IF Head(candidates) # <<>> THEN Head(candidates)
    ELSE preferValueUntrimmed(Tail(candidates))

\* preferValue(primary, fallbacks...): the first candidate that is non-empty
\* after trimming, trimmed; "" when there is none.
RECURSIVE preferValue(_)
preferValue(candidates) ==
    IF candidates = <<>> THEN <<>>
    ELSE IF TrimSpace(Head(candidates)) # <<>> THEN TrimSpace(Head(candidates))
    ELSE preferValue(Tail(candidates))

-----------------------------------------------------------------------------
(* Decimal conversion of the port keys of the state secret                 *)

DigitChars == <<"0", "1", "2", "3", "4", "5", "6", "7", "8", "9">>

IsDigit(c) == \E d \in 1..10 : DigitChars[d] = c

DigitVal(c) == (CHOOSE d \in 1..10 : DigitChars[d] = c) - 1

\* Variant of Itoa: the sign is dropped
RECURSIVE ItoaUnsigned(_)
ItoaUnsigned(n) ==
    IF n < 0 THEN ItoaUnsigned(0 - n)
    ELSE IF n < 10 THEN <<DigitChars[n + 1]>>
    ELSE ItoaUnsigned(n \div 10) \o <<DigitChars[(n % 10) + 1]>>

\* strconv.Itoa: "-" before the digits of a negative integer
RECURSIVE Itoa(_)
Itoa(n) ==
    IF n < 0 THEN <<"-">> \o Itoa(0 - n)
    ELSE IF n < 10 THEN <<DigitChars[n + 1]>>
    ELSE Itoa(n \div 10) \o <<DigitChars[(n % 10) + 1]>>

RECURSIVE DigitsVal(_)
DigitsVal(s) ==
    IF s = <<>> THEN 0
    ELSE DigitsVal(SubSeq(s, 1, Len(s) - 1)) * 10 + DigitVal(s[Len(s)])

\* Variant of Atoi: a single digit only
AtoiOneDigit(s) ==
    IF Len(s) = 1 /\ IsDigit(s[1])
    THEN [ok |-> TRUE, val |-> DigitVal(s[1])]
    ELSE [ok |-> FALSE, val |-> 0]

\* strconv.Atoi: an optional sign, then one or more decimal digits
Atoi(s) ==
    LET body == IF s # <<>> /\ Head(s) \in {"+", "-"} THEN Tail(s) ELSE s
        good == body # <<>> /\ \A i \in 1..Len(body) : IsDigit(body[i])
    IN  IF ~good THEN [ok |-> FALSE, val |-> 0]
        ELSE [ok |-> TRUE,
              val |-> IF Head(s) = "-" THEN 0 - DigitsVal(body) ELSE DigitsVal(body)]

-----------------------------------------------------------------------------
(* The scheduling database's fixed content and the configuration           *)

\* Largest number of non-deleted accounts the identity registry accepts for
\* one memo before CreateAccount is refused.
MaxAccounts == 2

\* league_matches rows with a target status, in the order FetchMatches returns them
MatchList == <<1, 2>>

MatchIDs == {MatchList[i] : i \in 1..Len(MatchList)}

\* The (match, round) pairs a schedule may hold
Keys == {<<1, 1>>, <<1, 2>>, <<2, 1>>}

\* Contents of league_match_rounds: per match, the round ids in the order
\* FetchMatchRounds returns them
OneRound   == [m \in MatchIDs |-> IF m = 1 THEN <<1>> ELSE <<>>]
OtherRound == [m \in MatchIDs |-> IF m = 1 THEN <<2>> ELSE <<>>]
TwoRounds  == [m \in MatchIDs |-> IF m = 1 THEN <<1, 2>> ELSE <<>>]
TwoMatches == [m \in MatchIDs |-> <<1>>]

\* league_divisions.name of the home roster's division
DivisionName(m) == IF m = 1 THEN <<" ", "A", "b">> ELSE <<"C", " ">>

\* FetchMapName for the round's map_id: the maps row, or an error when the
\* row is missing
FetchMapName(k) ==
    CASE k = <<1, 1>> -> [err |-> FALSE, name |-> <<"x", " ">>]
      [] k = <<1, 2>> -> [err |-> TRUE, name |-> <<>>]
      [] OTHER -> [err |-> FALSE, name |-> <<" ">>]

\* roster user ids notified for a match: home roster, then away roster
Recipients(m) == <<"home", "away">>

PasswordPool == {"pwA", "pwB"}

RconPool == {"rcA", "rcB"}

IPExternalFirst == "external-first"
IPInternalOnly == "internal-only"

\* MATCH_DIVISION_FILTERS after parseStringSlice and lowercasing: NoFilter,
\* FilterAb, FilterXC below.  PORT_RANGE_{GAME,SOURCETV,CLIENT,STEAM}:
PortRanges ==
    [Game     |-> [Start |-> 10, End |-> 11],
     SourceTV |-> [Start |-> 12, End |-> 13],
     Client   |-> [Start |-> 14, End |-> 15],
     Steam    |-> [Start |-> 8,  End |-> 9]]

NodeExt(a) == [type |-> "ExternalIP", v4 |-> TRUE, addr |-> a]
NodeInt(a) == [type |-> "InternalIP", v4 |-> TRUE, addr |-> a]
NodeV6(t, a) == [type |-> t, v4 |-> FALSE, addr |-> a]

\* node lists the cluster may answer with: each node is its list of addresses
Cluster == << <<NodeV6("ExternalIP", "e6"), NodeInt("i1")>>, <<NodeExt("e2")>> >>
ClusterNoV4 == << <<NodeV6("InternalIP", "i6")>> >>

\* config.Config as Load leaves it: the knobs the reconciler reads
Config(host, notify, steam, cleanup, token, filters, preference) ==
    [HostNetwork          |-> host,
     NotificationsEnabled |-> notify,
     SteamClient          |-> steam,
     EnableTokenCleanup   |-> cleanup,
     StaticToken          |-> token,
     DefaultMap           |-> <<"d">>,
     DivisionFilters      |-> filters,
     NodeIPPreference     |-> preference,
     Ports                |-> PortRanges]

NoFilter == <<>>
FilterAb == <<<<"a", "b">>>>
FilterXC == <<<<"x">>, <<"c">>>>

Plain == Config(FALSE, TRUE, FALSE, FALSE, "static", NoFilter, IPExternalFirst)

Deployment(c, schedule, nodeList) == [cfg |-> c, rounds |-> schedule, nodes |-> nodeList]

\* The deployments considered: the plain one; one knob turned at a time, with
\* a schedule that exercises it; the identity registry in use with and
\* without cleanup; a cluster without any IPv4 address.
Deployments ==
    { Deployment(Plain, OneRound, Cluster),
      Deployment(Config(TRUE, TRUE, FALSE, FALSE, "static", NoFilter, IPExternalFirst),
                 OneRound, Cluster),
      Deployment(Config(FALSE, FALSE, FALSE, TRUE, "", NoFilter, IPInternalOnly),
                 OtherRound, Cluster),
      Deployment(Config(FALSE, FALSE, FALSE, FALSE, "static", FilterAb, IPExternalFirst),
                 TwoMatches, Cluster),
      Deployment(Config(FALSE, FALSE, FALSE, FALSE, "static", FilterXC, IPInternalOnly),
                 TwoMatches, Cluster),
      Deployment(Config(FALSE, TRUE, TRUE, TRUE, "", NoFilter, IPExternalFirst),
                 OneRound, Cluster),
      Deployment(Config(FALSE, FALSE, TRUE, FALSE, "static", NoFilter, IPExternalFirst),
                 OneRound, Cluster),
      Deployment(Plain, OneRound, ClusterNoV4) }

-----------------------------------------------------------------------------
(* Port allocator                                                          *)

\* Variant of nextFree: the first port of the range is handed out whether
\* or not it is in use
nextFreeAny(port, end, used) ==
    IF port > end THEN [ok |-> FALSE, port |-> 0] ELSE [ok |-> TRUE, port |-> port]

\* Allocator.nextFree: scan upward from port to end for a port not in used
RECURSIVE nextFree(_, _, _)
nextFree(port, end, used) ==
    IF port > end THEN [ok |-> FALSE, port |-> 0]
    ELSE IF port \in used THEN nextFree(port + 1, end, used)
    ELSE [ok |-> TRUE, port |-> port]

NoAssignment == [Game |-> 0, SourceTV |-> 0, Client |-> 0, Steam |-> 0]

\* Variant of Allocate: a port handed to one category is not reserved
\* against the categories after it
AllocateNoReserve(ranges, nodePorts, listFails) ==
    LET used0 == {p \in nodePorts : p > 0}
        g  == nextFree(ranges.Game.Start, ranges.Game.End, used0)
        t  == nextFree(ranges.SourceTV.Start, ranges.SourceTV.End, used0)
        c  == nextFree(ranges.Client.Start, ranges.Client.End, used0)
        s  == nextFree(ranges.Steam.Start, ranges.Steam.End, used0)
    IN  IF listFails \/ ~g.ok \/ ~t.ok \/ ~c.ok \/ ~s.ok
        THEN [ok |-> FALSE, assign |-> NoAssignment]
        ELSE [ok |-> TRUE,
              assign |-> [Game |-> g.port, SourceTV |-> t.port,
                          Client |-> c.port, Steam |-> s.port]]

\* Variant of Allocate: the auxiliary port is picked first, then game,
\* spectator and client
AllocateAuxFirst(ranges, nodePorts, listFails) ==
    LET used0 == {p \in nodePorts : p > 0}
        s  == nextFree(ranges.Steam.Start, ranges.Steam.End, used0)
        u1 == used0 \cup {s.port}
        g  == nextFree(ranges.Game.Start, ranges.Game.End, u1)
        u2 == u1 \cup {g.port}
        t  == nextFree(ranges.SourceTV.Start, ranges.SourceTV.End, u2)
        u3 == u2 \cup {t.port}
        c  == nextFree(ranges.Client.Start, ranges.Client.End, u3)
    IN  IF listFails \/ ~g.ok \/ ~t.ok \/ ~c.ok \/ ~s.ok
        THEN [ok |-> FALSE, assign |-> NoAssignment]
        ELSE [ok |-> TRUE,
              assign |-> [Game |-> g.port, SourceTV |-> t.port,
                          Client |-> c.port, Steam |-> s.port]]

\* Allocator.Allocate: nodePorts is the set of node-ports of the listed services
Allocate(ranges, nodePorts, listFails) ==
    LET used0 == {p \in nodePorts : p > 0}
        g  == nextFree(ranges.Game.Start, ranges.Game.End, used0)
        u1 == used0 \cup {g.port}
        t  == nextFree(ranges.SourceTV.Start, ranges.SourceTV.End, u1)
        u2 == u1 \cup {t.port}
        c  == nextFree(ranges.Client.Start, ranges.Client.End, u2)
        u3 == u2 \cup {c.port}
        s  == nextFree(ranges.Steam.Start, ranges.Steam.End, u3)
    IN  IF listFails \/ ~g.ok \/ ~t.ok \/ ~c.ok \/ ~s.ok
        THEN [ok |-> FALSE, assign |-> NoAssignment]
        ELSE [ok |-> TRUE,
              assign |-> [Game |-> g.port, SourceTV |-> t.port,
                          Client |-> c.port, Steam |-> s.port]]

-----------------------------------------------------------------------------
(* Node-address discovery                                                  *)

RECURSIVE Flatten(_)
Flatten(nodeList) ==
    IF nodeList = <<>> THEN <<>> ELSE Head(nodeList) \o Flatten(Tail(nodeList))

\* Variant of scanAddresses: the first address is taken whatever its family
scanAddressesAnyFamily(addrs, pref, internal) ==
    IF addrs = <<>> THEN [ok |-> FALSE, ip |-> ""]
    ELSE [ok |-> TRUE, ip |-> Head(addrs).addr]

\* The scan of pickNodeIP over the addresses in list order; internal is the
\* internal candidate found so far ("" when none).
RECURSIVE scanAddresses(_, _, _)
scanAddresses(addrs, pref, internal) ==
    IF addrs = <<>>
    THEN IF internal # "" THEN [ok |-> TRUE, ip |-> internal]
         ELSE [ok |-> FALSE, ip |-> ""]
    ELSE LET a == Head(addrs) IN
         IF a.type = "ExternalIP" /\ a.v4 /\ pref = IPExternalFirst
         THEN [ok |-> TRUE, ip |-> a.addr]
         ELSE scanAddresses(Tail(addrs), pref,
                 IF a.type = "InternalIP" /\ a.v4 /\ internal = ""
                 THEN a.addr ELSE internal)

\* Variant of pickNodeIP: the preference is not looked at, internal
\* addresses only
pickNodeIPInternal(nodeList, pref, listFails) ==
    IF listFails THEN [ok |-> FALSE, ip |-> ""]
    ELSE scanAddresses(Flatten(nodeList), IPInternalOnly, "")

pickNodeIP(nodeList, pref, listFails) ==
    IF listFails THEN [ok |-> FALSE, ip |-> ""]
    ELSE scanAddresses(Flatten(nodeList), pref, "")

-----------------------------------------------------------------------------
(* State-secret store                                                      *)

\* Variant of loadServerState: the secret is never found
loadServerStateBlind(secret, getFails) ==
    IF getFails THEN [err |-> TRUE, state |-> <<>>]
    ELSE [err |-> FALSE, state |-> <<>>]

\* Variant of loadServerState: a port key that does not parse reads as 0
loadServerStateLenient(secret, getFails) ==
    IF getFails THEN [err |-> TRUE, state |-> <<>>]
    ELSE IF secret = <<>> THEN [err |-> FALSE, state |-> <<>>]
    ELSE LET data == secret[1] IN
         [err |-> FALSE,
          state |-> << [Ports |-> [Game |-> Atoi(data.game_port).val,
                                   SourceTV |-> Atoi(data.sourcetv_port).val,
                                   Client |-> Atoi(data.client_port).val,
                                   Steam |-> Atoi(data.steam_port).val],
                        Password |-> data.password,
                        RCON |-> data.rcon,
                        Map |-> data.map,
                        Token |-> data.token] >>]

\* loadServerState: data is the secret when present; a key that is missing
\* reads as "" like a key that is empty.
loadServerState(secret, getFails) ==
    IF getFails THEN [err |-> TRUE, state |-> <<>>]
    ELSE IF secret = <<>> THEN [err |-> FALSE, state |-> <<>>]
    ELSE LET data == secret[1]
             gamePort   == Atoi(data.game_port)
             sourcePort == Atoi(data.sourcetv_port)
             clientPort == Atoi(data.client_port)
             steamPort  == Atoi(data.steam_port)
         IN  IF data.game_port = <<>> \/ ~gamePort.ok
                \/ data.sourcetv_port = <<>> \/ ~sourcePort.ok
                \/ data.client_port = <<>> \/ ~clientPort.ok
                \/ data.steam_port = <<>> \/ ~steamPort.ok
             THEN [err |-> TRUE, state |-> <<>>]
             ELSE [err |-> FALSE,
                   state |-> << [Ports |-> [Game |-> gamePort.val,
                                            SourceTV |-> sourcePort.val,
                                            Client |-> clientPort.val,
                                            Steam |-> steamPort.val],
                                 Password |-> data.password,
                                 RCON |-> data.rcon,
                                 Map |-> data.map,
                                 Token |-> data.token] >>]

\* Variant of secretData: the map is stored as given, not normalised
secretDataRawMap(state, defaultMap) ==
    [password      |-> state.Password,
     rcon          |-> state.RCON,
     game_port     |-> Itoa(state.Ports.Game),
     sourcetv_port |-> Itoa(state.Ports.SourceTV),
     client_port   |-> Itoa(state.Ports.Client),
     steam_port    |-> Itoa(state.Ports.Steam),
     map           |-> state.Map,
     token         |-> state.Token]

\* persistStateSecret: the Data of the desired secret
secretData(state, defaultMap) ==
    [password      |-> state.Password,
     rcon          |-> state.RCON,
     game_port     |-> Itoa(state.Ports.Game),
     sourcetv_port |-> Itoa(state.Ports.SourceTV),
     client_port   |-> Itoa(state.Ports.Client),
     steam_port    |-> Itoa(state.Ports.Steam),
     map           |-> preferValue(<<state.Map, defaultMap, <<>>>>),
     token         |-> state.Token]

\* Variant of deleteStateSecret: a secret that is already absent is an error
deleteStateSecretStrict(secret, deleteFails) ==
    IF deleteFails \/ secret = <<>> THEN [err |-> TRUE, secret |-> secret]
    ELSE [err |-> FALSE, secret |-> <<>>]

\* deleteStateSecret: NotFound counts as success
deleteStateSecret(secret, deleteFails) ==
    IF deleteFails THEN [err |-> TRUE, secret |-> secret]
    ELSE [err |-> FALSE, secret |-> <<>>]

-----------------------------------------------------------------------------
(* Override bundle and manifest renderer                                   *)

Kinds == {"Deployment", "Service"}

NoObjects == [kind \in Kinds |-> <<>>]

\* buildValues: the part of the override bundle that depends on the state
buildValues(state, hostNetwork, defaultMap) ==
    [service |-> IF hostNetwork THEN <<>>
                 ELSE << [nodePorts |-> <<state.Ports.Game, state.Ports.Game,
                                          state.Ports.SourceTV, state.Ports.Client,
                                          state.Ports.Steam>>] >>,
     app     |-> [SRCDS_PORT        |-> state.Ports.Game,
                  SRCDS_PW          |-> state.Password,
                  SRCDS_RCONPW      |-> state.RCON,
                  SRCDS_STARTMAP    |-> preferValue(<<state.Map, defaultMap, <<>>>>),
                  SRCDS_TOKEN       |-> state.Token,
                  SRCDS_TV_PORT     |-> state.Ports.SourceTV,
                  SRCDS_CLIENT_PORT |-> state.Ports.Client,
                  SRCDS_STEAM_PORT  |-> state.Ports.Steam]]

\* The content the chart gives an object kind for a bundle (<<>>: not rendered)
renderedContent(values, kind) ==
    IF kind = "Deployment" THEN <<values.app>> ELSE values.service

\* The orders in which the iteration over the manifest map may visit the kinds
KindOrders ==
    {o \in [1..Cardinality(Kinds) -> Kinds] : \A i, j \in 1..Len(o) : i # j => o[i] # o[j]}

\* Renderer.renderObjects: the rendered objects, in the order the iteration
\* over the manifest map (perm) visits them
renderObjects(values, perm) ==
    LET rendered(kind) == renderedContent(values, kind) # <<>>
    IN  SelectSeq(perm, rendered)

\* Variant of applyObjects: the objects after the failing one are applied
\* all the same
applyObjectsAll(objs, values, order, failAt) ==
    [kind \in Kinds |->
        IF \E i \in 1..Len(order) : order[i] = kind /\ (failAt = 0 \/ i # failAt)
        THEN renderedContent(values, kind)
        ELSE objs[kind]]

\* Renderer.Apply: objects of order are created or updated one after another;
\* the object at index failAt (0: none) fails and ends the call.
applyObjects(objs, values, order, failAt) ==
    [kind \in Kinds |->
        IF \E i \in 1..Len(order) : order[i] = kind /\ (failAt = 0 \/ i < failAt)
        THEN renderedContent(values, kind)
        ELSE objs[kind]]

\* Renderer.Delete: objects of order are deleted from the last to the first;
\* the failAt-th delete (0: none) fails and ends the call.
deleteObjects(objs, order, failAt) ==
    [kind \in Kinds |->
        IF \E i \in 1..Len(order) :
              order[i] = kind /\ (failAt = 0 \/ Len(order) - i + 1 < failAt)
        THEN <<>>
        ELSE objs[kind]]

\* The node-ports of every service in the namespace
serviceNodePorts(objs) ==
    UNION {{objs[k]["Service"][1].nodePorts[i] : i \in 1..5} :
              k \in {x \in DOMAIN objs : objs[x]["Service"] # <<>>}}

-----------------------------------------------------------------------------
(* Identity registry                                                       *)

\* Variant of generateSRCDSToken: a failed registry call is not reported
generateSRCDSTokenSilent(existing) ==
    IF ~cfg.SteamClient
    THEN [err |-> FALSE, token |-> cfg.StaticToken, created |-> FALSE]
    ELSE IF steamUp /\ existing < MaxAccounts
    THEN [err |-> FALSE, token |-> "minted", created |-> TRUE]
    ELSE [err |-> FALSE, token |-> "", created |-> FALSE]

\* generateSRCDSToken: existing is the number of accounts under the round's memo
generateSRCDSToken(existing) ==
    IF ~cfg.SteamClient
    THEN [err |-> FALSE, token |-> cfg.StaticToken, created |-> FALSE]
    ELSE IF steamUp /\ existing < MaxAccounts
    THEN [err |-> FALSE, token |-> "minted", created |-> TRUE]
    ELSE [err |-> TRUE, token |-> "", created |-> FALSE]

\* Variant of cleanupSRCDSToken: only the first matching account is deleted
cleanupSRCDSTokenFirst(existing) ==
    IF ~cfg.EnableTokenCleanup \/ ~cfg.SteamClient
    THEN [err |-> FALSE, left |-> existing]
    ELSE IF ~steamUp THEN [err |-> TRUE, left |-> existing]
    ELSE [err |-> FALSE, left |-> IF existing > 0 THEN existing - 1 ELSE 0]

\* cleanupSRCDSToken: the number of accounts under the round's memo afterwards
cleanupSRCDSToken(existing) ==
    IF ~cfg.EnableTokenCleanup \/ ~cfg.SteamClient
    THEN [err |-> FALSE, left |-> existing]
    ELSE IF ~steamUp THEN [err |-> TRUE, left |-> existing]
    ELSE [err |-> FALSE, left |-> 0]

-----------------------------------------------------------------------------
(* Ensure and teardown of one round                                        *)

\* What one call left behind for its round and what it returned: hit is the
\* step that failed ("none": no step), trace the effects in the order made.
Outcome(sec, objs, det, acc, nts, ok, hit, isNew, trace) ==
    [sec |-> sec, objs |-> objs, det |-> det, acc |-> acc, nts |-> nts,
     ok |-> ok, hit |-> hit, isNew |-> isNew, trace |-> trace]

EnsureFaults == {"none", "load", "alloc", "gen", "persist", "apply1", "apply2",
                 "nodes", "upsert", "notify1", "notify2"}

TeardownFaults == {"none", "load", "delete1", "delete2", "unpublish", "secret"}

applyLabels(order, n) == [i \in 1..n |-> "apply"]

deleteLabels(order, n) == [i \in 1..n |-> "delete"]

\* Variant of shouldNotify: every ensure notifies
shouldNotifyAlways(isNew, enabled) == enabled

\* The condition under which ensureRound sends the server details to the teams
shouldNotify(isNew, enabled) == isNew /\ enabled

\* ensureRound for round k with the resolved map name; f is the step whose
\* external call fails, perm the render order, pw and rc the generated secrets.
ensureRound(k, mapName, f, perm, pw, rc) ==
    LET ld == loadServerState(secrets[k], f = "load") IN
    IF ld.err
    THEN Outcome(secrets[k], objects[k], details[k], accounts[k], notes[k],
                 FALSE, "load", FALSE, <<>>)
    ELSE
    LET isNew == ld.state = <<>>
        al    == Allocate(cfg.Ports, serviceNodePorts(objects), f = "alloc")
    IN
    IF isNew /\ ~al.ok
    THEN Outcome(secrets[k], objects[k], details[k], accounts[k], notes[k],
                 FALSE, "alloc", TRUE, <<>>)
    ELSE IF isNew /\ f = "gen"
    THEN Outcome(secrets[k], objects[k], details[k], accounts[k], notes[k],
                 FALSE, "gen", TRUE, <<"alloc">>)
    ELSE
    LET wantMint == isNew \/ ld.state[1].Token = ""
        mint  == generateSRCDSToken(accounts[k])
        token == IF mint.err THEN cfg.StaticToken ELSE mint.token
        acc1  == IF wantMint /\ mint.created THEN accounts[k] + 1 ELSE accounts[k]
        state == IF isNew
                 THEN [Ports |-> al.assign, Password |-> pw, RCON |-> rc,
                       Map |-> mapName, Token |-> token]
                 ELSE [ld.state[1] EXCEPT
                          !.Map = preferValue(<<mapName, @, cfg.DefaultMap>>),
                          !.Token = IF @ = "" THEN token ELSE @]
        tr1   == (IF isNew THEN <<"alloc", "gen">> ELSE <<>>)
                 \o (IF wantMint /\ mint.created THEN <<"mint">> ELSE <<>>)
    IN
    IF f = "persist"
    THEN Outcome(secrets[k], objects[k], details[k], acc1, notes[k],
                 FALSE, "persist", isNew, tr1)
    ELSE
    LET sec1   == <<secretData(state, cfg.DefaultMap)>>
        values == buildValues(state, cfg.HostNetwork, cfg.DefaultMap)
        order  == renderObjects(values, perm)
        at     == IF f = "apply1" THEN 1 ELSE IF f = "apply2" THEN 2 ELSE 0
        failAt == IF at <= Len(order) THEN at ELSE 0
        objs1  == applyObjects(objects[k], values, order, failAt)
        tr2    == tr1 \o <<"persist">>
                  \o applyLabels(order, IF failAt = 0 THEN Len(order) ELSE failAt - 1)
    IN
    IF failAt # 0
    THEN Outcome(sec1, objs1, details[k], acc1, notes[k], FALSE, f, isNew, tr2)
    ELSE
    LET node == pickNodeIP(nodes, cfg.NodeIPPreference, f = "nodes") IN
    IF ~node.ok
    THEN Outcome(sec1, objs1, details[k], acc1, notes[k], FALSE, "nodes", isNew, tr2)
    ELSE IF f = "upsert"
    THEN Outcome(sec1, objs1, details[k], acc1, notes[k], FALSE, "upsert", isNew, tr2)
    ELSE
    LET det1   == << [ServerIP |-> node.ip,
                      Port |-> state.Ports.Game,
                      SourceTVPort |-> state.Ports.SourceTV,
                      Password |-> state.Password,
                      Map |-> preferValue(<<state.Map, mapName, cfg.DefaultMap>>)] >>
        notify == shouldNotify(isNew, cfg.NotificationsEnabled)
        sent   == IF ~notify THEN 0
                  ELSE IF f = "notify1" THEN 0
                  ELSE IF f = "notify2" THEN 1
                  ELSE Len(Recipients(k[1]))
    IN  Outcome(sec1, objs1, det1, acc1, notes[k] + sent, TRUE,
                IF notify /\ f \in {"notify1", "notify2"} THEN f ELSE "none",
                isNew,
                tr2 \o <<"upsert">> \o [i \in 1..sent |-> "notify"])

\* Variant of synthesizeState: the client and auxiliary ports are taken to be
\* the game port
synthesizeStateFlat(det, mapName) ==
    [Ports |-> [Game |-> det.Port, SourceTV |-> det.SourceTVPort,
                Client |-> det.Port, Steam |-> det.Port],
     Password |-> det.Password,
     RCON |-> "",
     Map |-> preferValue(<<det.Map, mapName, cfg.DefaultMap>>),
     Token |-> cfg.StaticToken]

\* teardownRound, state == nil: the state rebuilt from the ConnectionDetails row
synthesizeState(det, mapName) ==
    [Ports |-> [Game |-> det.Port, SourceTV |-> det.SourceTVPort,
                Client |-> det.Port + 1, Steam |-> det.Port + 2],
     Password |-> det.Password,
     RCON |-> "",
     Map |-> preferValue(<<det.Map, mapName, cfg.DefaultMap>>),
     Token |-> cfg.StaticToken]

\* Variant of teardownRound: the state secret is deleted first, then the
\* objects, then the row
teardownRoundSecretFirst(k, mapName, det, f, perm) ==
    LET ld == loadServerState(secrets[k], f = "load") IN
    IF ld.err
    THEN Outcome(secrets[k], objects[k], details[k], accounts[k], notes[k],
                 FALSE, "load", FALSE, <<>>)
    ELSE
    LET gone == deleteStateSecret(secrets[k], f = "secret") IN
    IF gone.err
    THEN Outcome(gone.secret, objects[k], details[k], accounts[k], notes[k],
                 FALSE, "secret", FALSE, <<>>)
    ELSE
    LET built  == ld.state = <<>>
        state  == IF built
                  THEN synthesizeState(det, mapName)
                  ELSE ld.state[1]
        values == buildValues(state, cfg.HostNetwork, cfg.DefaultMap)
        order  == renderObjects(values, perm)
        at     == IF f = "delete1" THEN 1 ELSE IF f = "delete2" THEN 2 ELSE 0
        failAt == IF at <= Len(order) THEN at ELSE 0
        objs1  == deleteObjects(objects[k], order, failAt)
        tr1    == <<"secretdelete">>
                  \o deleteLabels(order, IF failAt = 0 THEN Len(order) ELSE failAt - 1)
    IN
    IF failAt # 0
    THEN Outcome(gone.secret, objs1, details[k], accounts[k], notes[k],
                 FALSE, f, built, tr1)
    ELSE IF f = "unpublish"
    THEN Outcome(gone.secret, objs1, details[k], accounts[k], notes[k],
                 FALSE, "unpublish", built, tr1)
    ELSE
    LET clean == cleanupSRCDSToken(accounts[k])
    IN  Outcome(gone.secret, objs1, <<>>, clean.left, notes[k], TRUE, "none", built,
                tr1 \o <<"unpublish">>
                \o (IF clean.left # accounts[k] THEN <<"cleanup">> ELSE <<>>))

\* teardownRound for round k; det is the ConnectionDetails row passed in.
teardownRound(k, mapName, det, f, perm) ==
    LET ld == loadServerState(secrets[k], f = "load") IN
    IF ld.err
    THEN Outcome(secrets[k], objects[k], details[k], accounts[k], notes[k],
                 FALSE, "load", FALSE, <<>>)
    ELSE
    LET built  == ld.state = <<>>
        state  == IF built
                  THEN synthesizeState(det, mapName)
                  ELSE ld.state[1]
        values == buildValues(state, cfg.HostNetwork, cfg.DefaultMap)
        order  == renderObjects(values, perm)
        at     == IF f = "delete1" THEN 1 ELSE IF f = "delete2" THEN 2 ELSE 0
        failAt == IF at <= Len(order) THEN at ELSE 0
        objs1  == deleteObjects(objects[k], order, failAt)
        tr1    == deleteLabels(order, IF failAt = 0 THEN Len(order) ELSE failAt - 1)
    IN
    IF failAt # 0
    THEN Outcome(secrets[k], objs1, details[k], accounts[k], notes[k],
                 FALSE, f, built, tr1)
    ELSE IF f = "unpublish"
    THEN Outcome(secrets[k], objs1, details[k], accounts[k], notes[k],
                 FALSE, "unpublish", built, tr1)
    ELSE
    LET gone == deleteStateSecret(secrets[k], f = "secret") IN
    IF gone.err
    THEN Outcome(gone.secret, objs1, <<>>, accounts[k], notes[k],
                 FALSE, "secret", built, tr1 \o <<"unpublish">>)
    ELSE
    LET clean == cleanupSRCDSToken(accounts[k])
    IN  Outcome(gone.secret, objs1, <<>>, clean.left, notes[k], TRUE, "none", built,
                tr1 \o <<"unpublish", "secretdelete">>
                \o (IF clean.left # accounts[k] THEN <<"cleanup">> ELSE <<>>))

-----------------------------------------------------------------------------
(* The reconciler                                                          *)

\* Variant of divisionMatchesFilter: the filter list is not consulted
divisionMatchesFilterOpen(name, filters) == TRUE

\* divisionMatchesFilter
divisionMatchesFilter(name, filters) ==
    IF Len(filters) = 0 THEN TRUE
    ELSE LET normalized == ToLower(TrimSpace(name)) IN
         IF normalized = <<>> THEN FALSE
         ELSE \E i \in 1..Len(filters) :
                 filters[i] # <<>> /\ Contains(normalized, filters[i])

\* Variant of needsServer: the disjunction replaced by a conjunction
needsServerBoth(manualNotDone, hasOutcome) == manualNotDone /\ ~hasOutcome

\* needsServer := match.ManualNotDone || !round.HasOutcome
needsServer(manualNotDone, hasOutcome) == manualNotDone \/ ~hasOutcome

\* The rounds the schedule holds
Scheduled == {k \in Keys : \E i \in 1..Len(rounds[k[1]]) : rounds[k[1]][i] = k[2]}

NoKey == <<0, 0>>

NoOutcome == [ok |-> TRUE, hit |-> "none", isNew |-> FALSE, trace |-> <<>>]

\* The record of the last operation: kind is the operation, k its match and
\* round, op what it decided, needs the needs-a-server flag it computed, res
\* what the call returned, map and det the arguments it passed on, reads the
\* database reads it made.
Ev(kind, k, op, needs, res, map, det, reads) ==
    [kind |-> kind, k |-> k, op |-> op, needs |-> needs,
     ok |-> res.ok, hit |-> res.hit, isNew |-> res.isNew, trace |-> res.trace,
     map |-> map, det |-> det, reads |-> reads]

NothingFetched ==
    [manual |-> [m \in MatchIDs |-> FALSE], outcome |-> [k \in Keys |-> FALSE]]

\* No second controller process is followed.  Only SpecPeers follows two.
NoPeers == <<>>

\* Run has not been called: no ticker, the stop signal not cancelled, no
\* reconcile in flight.  Only SpecRun follows the loop of Run.
NotStarted == [at |-> "new", timer |-> 0, done |-> FALSE, seen |-> FALSE, inflight |-> 0]

\* The state after construction in one of the deployments ds
InitIn(ds) ==
    /\ \E d \in ds : cfg = d.cfg /\ rounds = d.rounds /\ nodes = d.nodes
    /\ steamUp = TRUE
    /\ faults = TRUE
    /\ manual \in {f \in [MatchIDs -> BOOLEAN] : \A m \in MatchIDs : rounds[m] = <<>> => ~f[m]}
    /\ outcome = [k \in Keys |-> FALSE]
    /\ details = [k \in Keys |-> <<>>]
    /\ notes = [k \in Keys |-> 0]
    /\ secrets = [k \in Keys |-> <<>>]
    /\ objects = [k \in Keys |-> NoObjects]
    /\ accounts = [k \in Keys |-> 0]
    /\ pc = "idle"
    /\ mi = 0
    /\ ri = 0
    /\ fetched = NothingFetched
    /\ ev = Ev("init", NoKey, "none", FALSE, NoOutcome, <<>>, <<>>, <<>>)

Init ==
    /\ InitIn(Deployments)
    /\ fin = <<>>
    /\ fout = <<>>
    /\ run = NotStarted
    /\ peers = NoPeers

\* The controller moves on to the match after the current one, or ends the tick
LeavePosition ==
    IF mi < Len(MatchList)
    THEN pc' = "match" /\ mi' = mi + 1 /\ ri' = 0
    ELSE pc' = "idle" /\ mi' = 0 /\ ri' = 0

LeaveMatch ==
    /\ LeavePosition
    /\ fetched' = IF mi < Len(MatchList)
                  THEN [fetched EXCEPT !.outcome = NothingFetched.outcome]
                  ELSE NothingFetched

\* reconcile: the match query that opens a tick; queryFails: FetchMatches fails
ReconcileWith(queryFails) ==
    /\ pc = "idle"
    /\ queryFails => faults
    /\ ev' = Ev("tick", NoKey, IF queryFails THEN "fail" ELSE "matches", FALSE,
                [NoOutcome EXCEPT !.ok = ~queryFails], <<>>, <<>>, <<"matches">>)
    /\ IF queryFails \/ Len(MatchList) = 0
       THEN UNCHANGED <<pc, mi, ri, fetched>>
       ELSE /\ pc' = "match"
            /\ mi' = 1
            /\ ri' = 0
            /\ fetched' = [NothingFetched EXCEPT !.manual = manual]
    /\ UNCHANGED <<cfg, nodes, steamUp, rounds, manual, outcome, stores, faults, fin, fout, peers>>

\* A tick, the loop of Run not followed
Reconcile ==
    /\ \E queryFails \in BOOLEAN : ReconcileWith(queryFails)
    /\ UNCHANGED run

MatchFaults == <<"division", "league", "home", "away", "rounds">>

MatchReads == <<"division", "league", "home", "away", "rounds">>

FaultIndex(mf) == CHOOSE i \in 1..Len(MatchFaults) : MatchFaults[i] = mf

\* Variant of ReconcileMatchWith: the error of a match ends the tick
ReconcileMatchAborting(mf) ==
    /\ pc = "match"
    /\ mf # "none" => faults
    /\ LET m == MatchList[mi] IN
          LET passes == divisionMatchesFilter(DivisionName(m), cfg.DivisionFilters)
              failed == mf # "none" /\ (passes \/ mf = "division")
              reads  == IF mf = "division" THEN <<"division">>
                        ELSE IF ~passes THEN <<"division">>
                        ELSE IF mf = "none" THEN MatchReads
                        ELSE SubSeq(MatchReads, 1, FaultIndex(mf))
              op     == IF failed THEN "fail" ELSE IF ~passes THEN "skip" ELSE "rounds"
          IN  /\ ev' = Ev("match", <<m, 0>>, op, FALSE,
                          [NoOutcome EXCEPT !.ok = ~failed, !.hit = IF failed THEN mf ELSE "none"],
                          <<>>, <<>>, reads)
              /\ IF op = "rounds" /\ Len(rounds[m]) > 0
                 THEN /\ pc' = "rounds"
                      /\ ri' = 1
                      /\ mi' = mi
                      /\ fetched' = [fetched EXCEPT !.outcome =
                                        [k \in Keys |-> k[1] = m /\ outcome[k]]]
                 ELSE IF failed
                 THEN pc' = "idle" /\ mi' = 0 /\ ri' = 0 /\ fetched' = NothingFetched
                 ELSE LeaveMatch
    /\ UNCHANGED <<cfg, nodes, steamUp, rounds, manual, outcome, stores, faults, fin, fout, run, peers>>

\* reconcileMatch up to the loop over the rounds; mf: the read that fails
ReconcileMatchWith(mf) ==
    /\ pc = "match"
    /\ mf # "none" => faults
    /\ LET m == MatchList[mi] IN
          LET passes == divisionMatchesFilter(DivisionName(m), cfg.DivisionFilters)
              failed == mf # "none" /\ (passes \/ mf = "division")
              reads  == IF mf = "division" THEN <<"division">>
                        ELSE IF ~passes THEN <<"division">>
                        ELSE IF mf = "none" THEN MatchReads
                        ELSE SubSeq(MatchReads, 1, FaultIndex(mf))
              op     == IF failed THEN "fail" ELSE IF ~passes THEN "skip" ELSE "rounds"
          IN  /\ ev' = Ev("match", <<m, 0>>, op, FALSE,
                          [NoOutcome EXCEPT !.ok = ~failed, !.hit = IF failed THEN mf ELSE "none"],
                          <<>>, <<>>, reads)
              /\ IF op = "rounds" /\ Len(rounds[m]) > 0
                 THEN /\ pc' = "rounds"
                      /\ ri' = 1
                      /\ mi' = mi
                      /\ fetched' = [fetched EXCEPT !.outcome =
                                        [k \in Keys |-> k[1] = m /\ outcome[k]]]
                 ELSE LeaveMatch
    /\ UNCHANGED <<cfg, nodes, steamUp, rounds, manual, outcome, stores, faults, fin, fout, run, peers>>

ReconcileMatch ==
    \E mf \in {"none"} \cup {MatchFaults[i] : i \in 1..Len(MatchFaults)} :
       ReconcileMatchWith(mf)

FirstOf(set) == CHOOSE x \in set : TRUE

\* The stores after a call that left res behind for round k
Commit(k, res) ==
    /\ secrets' = [secrets EXCEPT ![k] = res.sec]
    /\ objects' = [objects EXCEPT ![k] = res.objs]
    /\ details' = [details EXCEPT ![k] = res.det]
    /\ accounts' = [accounts EXCEPT ![k] = res.acc]
    /\ notes' = [notes EXCEPT ![k] = res.nts]

\* What a step that calls neither ensure nor teardown leaves behind
Untouched(k, ok, hit) ==
    Outcome(secrets[k], objects[k], details[k], accounts[k], notes[k],
            ok, hit, FALSE, <<>>)

\* reconcileMatch: one pass of the loop over the rounds; detFails:
\* FetchMatchDetails fails, f: the step of ensure or teardown that fails
ReconcileRoundWith(detFails, f) ==
    /\ pc = "rounds"
    /\ (detFails \/ f # "none") => faults
    /\ LET m == MatchList[mi]
           k == <<m, rounds[m][ri]>>
       IN
       \E perm \in KindOrders, pw \in PasswordPool, rc \in RconPool :
          LET lookup  == FetchMapName(k)
              mapName == IF lookup.err THEN cfg.DefaultMap ELSE lookup.name
              needs   == needsServer(fetched.manual[m], fetched.outcome[k])
              op      == IF detFails THEN "fail"
                         ELSE IF needs THEN "ensure"
                         ELSE IF details[k] # <<>> THEN "teardown"
                         ELSE "none"
              res     == CASE op = "ensure" -> ensureRound(k, mapName, f, perm, pw, rc)
                           [] op = "teardown" ->
                                 teardownRound(k, mapName, details[k][1], f, perm)
                           [] OTHER ->
                                 Untouched(k, ~detFails, IF detFails THEN "details" ELSE "none")
          IN  /\ op = "ensure" => f \in EnsureFaults
              /\ op = "teardown" => f \in TeardownFaults
              /\ op \in {"fail", "none"} => f = "none"
              /\ ~(op = "ensure" /\ secrets[k] = <<>>) => pw = FirstOf(PasswordPool) /\ rc = FirstOf(RconPool)
              /\ f \notin {"apply2", "delete2"} => perm = FirstOf(KindOrders)
              /\ \E r \in {res} :
                    /\ Commit(k, r)
                    /\ ev' = Ev("round", k, op, needs, r, mapName,
                                IF detFails THEN <<>> ELSE details[k], <<"map", "details">>)
              /\ IF ~detFails /\ ri < Len(rounds[m])
                 THEN /\ ri' = ri + 1
                      /\ UNCHANGED <<pc, mi, fetched>>
                 ELSE LeaveMatch
    /\ UNCHANGED <<cfg, nodes, steamUp, rounds, manual, outcome, faults, fin, fout, run, peers>>

ReconcileRound ==
    \E detFails \in BOOLEAN, f \in EnsureFaults \cup TeardownFaults :
       ReconcileRoundWith(detFails, f)

\* The process dies in the middle of a tick and is started again: nothing
\* it held in memory survives.
Restart ==
    /\ pc # "idle"
    /\ faults
    /\ pc' = "idle"
    /\ mi' = 0
    /\ ri' = 0
    /\ fetched' = NothingFetched
    /\ ev' = Ev("restart", NoKey, "none", FALSE, NoOutcome, <<>>, <<>>, <<>>)
    /\ UNCHANGED <<cfg, nodes, steamUp, rounds, manual, outcome, stores, faults, fin, fout, run, peers>>

\* The site records the outcome of a round
RecordOutcome ==
    /\ \E k \in Scheduled :
          /\ ~outcome[k]
          /\ outcome' = [outcome EXCEPT ![k] = TRUE]
    /\ ev' = Ev("site", NoKey, "none", FALSE, NoOutcome, <<>>, <<>>, <<>>)
    /\ UNCHANGED <<cfg, nodes, steamUp, rounds, manual, stores, pc, mi, ri, fetched, faults, fin, fout, run, peers>>

\* An administrator clears manual_not_done of a match
ClearManual ==
    /\ \E m \in MatchIDs :
          /\ manual[m]
          /\ manual' = [manual EXCEPT ![m] = FALSE]
    /\ ev' = Ev("site", NoKey, "none", FALSE, NoOutcome, <<>>, <<>>, <<>>)
    /\ UNCHANGED <<cfg, nodes, steamUp, rounds, outcome, stores, pc, mi, ri, fetched, faults, fin, fout, run, peers>>

\* The identity registry goes down or comes back
RegistryFlip ==
    /\ cfg.SteamClient
    /\ steamUp' = ~steamUp
    /\ ev' = Ev("registry", NoKey, "none", FALSE, NoOutcome, <<>>, <<>>, <<>>)
    /\ UNCHANGED <<cfg, nodes, rounds, manual, outcome, stores, pc, mi, ri, fetched, faults, fin, fout, run, peers>>

Next ==
    \/ Reconcile
    \/ ReconcileMatch
    \/ ReconcileRound
    \/ Restart
    \/ RecordOutcome
    \/ ClearManual
    \/ RegistryFlip

Spec == Init /\ [][Next]_vars

-----------------------------------------------------------------------------
(* Properties of the decision made for each round                          *)

\* The round a ReconcileRound step is about to handle
CurrentRound == <<MatchList[mi], rounds[MatchList[mi]][ri]>>

\* A step of the loop over the rounds whose details read succeeded
RoundStep == pc = "rounds" /\ ev'.kind = "round" /\ ev'.op # "fail"

\* C1: for every round the loop reaches, ensure runs iff the fetched match is
\* manual-not-done or the fetched round has no outcome; otherwise teardown
\* runs iff a ConnectionDetails row exists; otherwise nothing is written to
\* the cluster, the database or the identity registry.
C1_DecisionTable ==
    [][RoundStep =>
         LET m == MatchList[mi]
             k == CurrentRound
             wanted == fetched.manual[m] \/ ~fetched.outcome[k]
         IN  /\ ev'.k = k
             /\ (ev'.op = "ensure") <=> wanted
             /\ (ev'.op = "teardown") <=> (~wanted /\ details[k] # <<>>)
             /\ (ev'.op = "none") <=> (~wanted /\ details[k] = <<>>)
             /\ ev'.op = "ensure" =>
                    \A i \in 1..Len(ev'.trace) :
                       ev'.trace[i] \notin {"delete", "unpublish", "secretdelete", "cleanup"}
             /\ ev'.op = "teardown" =>
                    \A i \in 1..Len(ev'.trace) :
                       ev'.trace[i] \in {"delete", "unpublish", "secretdelete", "cleanup"}
             /\ ev'.op = "none" => ev'.trace = <<>> /\ UNCHANGED stores]_vars

\* C1 witness: a resolved round without a row was reached and left alone
C1_Witness ==
    /\ ev.kind = "round" /\ ev.op = "none"
    /\ ~manual[ev.k[1]] /\ outcome[ev.k]
    /\ details[ev.k] = <<>>

\* The last operation was an ensure of a round that returned success
EnsureSucceeded == ev.kind = "round" /\ ev.op = "ensure" /\ ev.ok

\* The last operation was a teardown of a round that returned success
TeardownSucceeded == ev.kind = "round" /\ ev.op = "teardown" /\ ev.ok

\* The four ports a secret stores, as numbers
StoredPorts(sec) ==
    [Game     |-> Atoi(sec.game_port).val,
     SourceTV |-> Atoi(sec.sourcetv_port).val,
     Client   |-> Atoi(sec.client_port).val,
     Steam    |-> Atoi(sec.steam_port).val]

\* C2: after ensureRound returned success for a round that needs a server,
\* the state secret exists, the ConnectionDetails row exists with the
\* secret's game port, password and map, and with host networking off the
\* service was rendered with node-ports equal to the secret's four ports.
C2_EnsurePublishes ==
    (EnsureSucceeded /\ ev.needs) =>
        LET k == ev.k IN
        /\ secrets[k] # <<>>
        /\ details[k] # <<>>
        /\ LET sec == secrets[k][1]
               row == details[k][1]
               p   == StoredPorts(sec)
           IN  /\ Atoi(sec.game_port).ok /\ Atoi(sec.sourcetv_port).ok
               /\ Atoi(sec.client_port).ok /\ Atoi(sec.steam_port).ok
               /\ row.Port = p.Game
               /\ row.Password = sec.password
               /\ row.Map = sec.map
               /\ ~cfg.HostNetwork =>
                      /\ objects[k]["Service"] # <<>>
                      /\ objects[k]["Service"][1].nodePorts =
                            <<p.Game, p.Game, p.SourceTV, p.Client, p.Steam>>

\* C2 witness: a successful ensure with host networking off left a service
\* and a row whose map had to be trimmed
C2_Witness ==
    /\ EnsureSucceeded /\ ev.needs
    /\ ~cfg.HostNetwork
    /\ objects[ev.k]["Service"] # <<>>
    /\ details[ev.k] # <<>>
    /\ ev.map # details[ev.k][1].Map

InTrace(label, trace) == \E i \in 1..Len(trace) : trace[i] = label

\* C4: while the state secret of a round survives, across ticks and
\* restarts, no ensure of the round allocates ports or generates a password
\* or admin key, the secret's four ports, password and admin key never
\* change, and every row an ensure upserts carries the secret's game port,
\* spectator port and password, the same as the row it replaces.
C4_StateSurvives ==
    [][\A k \in Keys :
          secrets[k] # <<>> =>
             /\ secrets'[k] # <<>> =>
                    /\ StoredPorts(secrets'[k][1]) = StoredPorts(secrets[k][1])
                    /\ secrets'[k][1].password = secrets[k][1].password
                    /\ secrets'[k][1].rcon = secrets[k][1].rcon
             /\ (pc = "rounds" /\ ev'.kind = "round" /\ ev'.op = "ensure" /\ ev'.k = k) =>
                    /\ ~InTrace("alloc", ev'.trace)
                    /\ ~InTrace("gen", ev'.trace)
                    /\ InTrace("upsert", ev'.trace) =>
                           /\ details'[k] # <<>>
                           /\ details'[k][1].Port = StoredPorts(secrets[k][1]).Game
                           /\ details'[k][1].SourceTVPort = StoredPorts(secrets[k][1]).SourceTV
                           /\ details'[k][1].Password = secrets[k][1].password
                           /\ details[k] # <<>> =>
                                  /\ details'[k][1].Port = details[k][1].Port
                                  /\ details'[k][1].SourceTVPort = details[k][1].SourceTVPort
                                  /\ details'[k][1].Password = details[k][1].Password]_vars

\* C4 witness: an ensure found its secret, one holding the second password
\* of the pool, and upserted the row over an earlier one
C4_Witness ==
    /\ EnsureSucceeded /\ ~ev.isNew
    /\ ev.det # <<>>
    /\ InTrace("upsert", ev.trace)
    /\ secrets[ev.k][1].password = "pwB"
    /\ details[ev.k][1].Password = "pwB"

\* The match's division name, lowercased and trimmed, contains none of the
\* non-empty filters of a non-empty filter list
FilteredOut(m) ==
    /\ Len(cfg.DivisionFilters) > 0
    /\ \A i \in 1..Len(cfg.DivisionFilters) :
          cfg.DivisionFilters[i] # <<>> =>
             ~Contains(ToLower(TrimSpace(DivisionName(m))), cfg.DivisionFilters[i])

\* C7: for a match the division filter rejects, the tick reads nothing
\* after the division and writes nothing: no secret, object, row, identity
\* account or notification of its rounds is created, changed or deleted,
\* whether the rounds need a server or are resolved.
C7_FilteredMatchUntouched ==
    [][/\ (pc = "match" /\ ev'.kind = "match" /\ FilteredOut(MatchList[mi])) =>
             /\ ev'.reads = <<"division">>
             /\ pc' # "rounds"
             /\ UNCHANGED stores
       /\ \A k \in Keys :
             FilteredOut(k[1]) =>
                /\ secrets'[k] = secrets[k] /\ objects'[k] = objects[k]
                /\ details'[k] = details[k] /\ accounts'[k] = accounts[k]
                /\ notes'[k] = notes[k]
                /\ ~(ev'.kind = "round" /\ ev'.k = k)]_vars

\* C7 witness: a match with a round that needs a server was skipped after
\* its division was fetched
C7_Witness ==
    /\ ev.kind = "match" /\ ev.op = "skip"
    /\ FilteredOut(ev.k[1])
    /\ rounds[ev.k[1]] # <<>>
    /\ ~outcome[<<ev.k[1], rounds[ev.k[1]][1]>>]

\* C9: a teardown of a resolved round whose row is present and whose
\* external calls all succeed leaves every rendered object of the release,
\* the ConnectionDetails row and the state secret deleted and, with token
\* cleanup enabled, no identity account under the round's memo.
C9_TeardownReleases ==
    (TeardownSucceeded /\ steamUp) =>
        /\ objects[ev.k] = NoObjects
        /\ details[ev.k] = <<>>
        /\ secrets[ev.k] = <<>>
        /\ cfg.EnableTokenCleanup => accounts[ev.k] = 0

\* C9 witness: a teardown deleted both objects, the row, the secret and the
\* identity accounts of the round
C9_Witness ==
    /\ TeardownSucceeded /\ steamUp
    /\ cfg.EnableTokenCleanup
    /\ ev.det # <<>>
    /\ ev.trace = <<"delete", "delete", "unpublish", "secretdelete", "cleanup">>

-----------------------------------------------------------------------------
(* Calling ensure or teardown twice back to back                           *)

\* ensureRound called again for the round it has just succeeded for, with
\* the same arguments, nothing else happening in between and every external
\* call answering
EnsureAgain ==
    /\ EnsureSucceeded
    /\ \E perm \in KindOrders, pw \in PasswordPool, rc \in RconPool :
          \E res \in {ensureRound(ev.k, ev.map, "none", perm, pw, rc)} :
              /\ Commit(ev.k, res)
              /\ ev' = Ev("again", ev.k, "ensure", ev.needs, res, ev.map, ev.det, <<>>)
    /\ UNCHANGED <<cfg, nodes, steamUp, rounds, manual, outcome, pc, mi, ri,
                   fetched, faults, fin, fout, run, peers>>

\* teardownRound called again for the round it has just succeeded for, with
\* the same arguments, nothing else happening in between and every external
\* call answering
TeardownAgain ==
    /\ TeardownSucceeded
    /\ \E perm \in KindOrders :
          \E res \in {teardownRound(ev.k, ev.map, ev.det[1], "none", perm)} :
              /\ Commit(ev.k, res)
              /\ ev' = Ev("again", ev.k, "teardown", ev.needs, res, ev.map, ev.det, <<>>)
    /\ UNCHANGED <<cfg, nodes, steamUp, rounds, manual, outcome, pc, mi, ri,
                   fetched, faults, fin, fout, run, peers>>

NextRepeat ==
    \/ Next
    \/ EnsureAgain
    \/ TeardownAgain

SpecRepeat == Init /\ [][NextRepeat]_vars

\* C5: ensureRound run again right after it succeeded, with no change in
\* the database, the cluster or the identity registry in between, succeeds
\* and leaves the secret, the applied objects, the ConnectionDetails row, the
\* identity accounts and the notification rows as the first call left them.
C5_EnsureIdempotent ==
    [][(EnsureSucceeded /\ ev'.kind = "again") =>
          /\ ev'.ok
          /\ UNCHANGED stores]_vars

\* C5 witness: a second ensure ran after a first one that created the
\* secret, minted an identity and notified both teams
C5_Witness ==
    /\ ev.kind = "again" /\ ev.op = "ensure"
    /\ accounts[ev.k] > 0
    /\ notes[ev.k] = Len(Recipients(ev.k[1]))
    /\ secrets[ev.k] # <<>> /\ details[ev.k] # <<>>

\* C6: after a successful teardown of a round, with no external change, a
\* second teardown request changes nothing and raises no error: the next
\* tick finds no row on the still-resolved round and writes nothing, and a
\* second direct call deletes objects and a secret that are already absent.
C6_TeardownIdempotent ==
    [][/\ (TeardownSucceeded /\ ev'.kind = "again") =>
             /\ ev'.ok
             /\ UNCHANGED stores
       /\ (RoundStep /\ ~needsServer(fetched.manual[MatchList[mi]], fetched.outcome[CurrentRound])
             /\ details[CurrentRound] = <<>>) =>
             /\ ev'.ok
             /\ UNCHANGED stores]_vars

\* C6 witness: a second direct teardown ran with the secret, the objects and
\* the row already gone
C6_Witness ==
    /\ ev.kind = "again" /\ ev.op = "teardown"
    /\ secrets[ev.k] = <<>> /\ details[ev.k] = <<>>
    /\ objects[ev.k] = NoObjects
    /\ InTrace("secretdelete", ev.trace)

-----------------------------------------------------------------------------
(* Progress: the ticker keeps firing and external calls eventually succeed *)

\* External calls stop failing and the process stops crashing
Settle ==
    /\ faults
    /\ faults' = FALSE
    /\ ev' = Ev("settle", NoKey, "none", FALSE, NoOutcome, <<>>, <<>>, <<>>)
    /\ UNCHANGED <<cfg, nodes, steamUp, rounds, manual, outcome, stores,
                   pc, mi, ri, fetched, fin, fout, run, peers>>

position == <<pc, mi, ri>>

\* The path of a tick whose calls all succeed: from the match query to the
\* first match, from a match into its rounds or on to the next match, from a
\* round to the next round or on to the next match, and back to idle
Advance ==
    /\ ~faults
    /\ CASE pc = "idle" -> pc' = "match" /\ mi' = 1 /\ ri' = 0
         [] pc = "match" ->
               IF /\ divisionMatchesFilter(DivisionName(MatchList[mi]), cfg.DivisionFilters)
                  /\ Len(rounds[MatchList[mi]]) > 0
               THEN pc' = "rounds" /\ mi' = mi /\ ri' = 1
               ELSE LeavePosition
         [] OTHER ->
               IF ri < Len(rounds[MatchList[mi]])
               THEN pc' = "rounds" /\ mi' = mi /\ ri' = ri + 1
               ELSE LeavePosition

\* One scheduled round in the plain deployment, in a cluster with and
\* without a usable address
InitFair ==
    /\ InitIn({Deployment(Plain, OneRound, Cluster),
               Deployment(Plain, OneRound, ClusterNoV4)})
    /\ fin = <<>>
    /\ fout = <<>>
    /\ run = NotStarted
    /\ peers = NoPeers

NextFair ==
    \/ Reconcile
    \/ ReconcileMatch
    \/ ReconcileRound
    \/ Restart
    \/ RecordOutcome
    \/ ClearManual
    \/ Settle

\* Run fires reconcile on every tick for as long as the process lives, and
\* reconcile walks through its matches and rounds without waiting, so once
\* external calls answer the controller takes its next step; that external
\* calls eventually succeed is what Settle stands for.
Fairness ==
    /\ WF_position(Advance)
    /\ WF_vars(Settle)

SpecFair == InitFair /\ [][NextFair]_vars /\ Fairness

\* pickNodeIP finds an address in the cluster's node list
Reachable == pickNodeIP(nodes, cfg.NodeIPPreference, FALSE).ok

\* The round is resolved: it has an outcome and its match is not manual-not-done
Resolved(k) == outcome[k] /\ ~manual[k[1]]

\* The release of the round holds a state secret or a rendered object
Claimed(k) == secrets[k] # <<>> \/ objects[k] # NoObjects

\* C8: once a round for which a state secret was created or objects were
\* applied is resolved, and external calls eventually succeed, a state is
\* eventually reached in which neither the secret nor any rendered object of
\* the release exists.
C8_ResolvedRoundReleased ==
    \A k \in Keys : (Reachable /\ Resolved(k) /\ Claimed(k)) ~> ~Claimed(k)

\* The ConnectionDetails row of the round carries the ports and password of
\* its state secret
Published(k) ==
    /\ secrets[k] # <<>>
    /\ details[k] # <<>>
    /\ details[k][1].Port = StoredPorts(secrets[k][1]).Game
    /\ details[k][1].SourceTVPort = StoredPorts(secrets[k][1]).SourceTV
    /\ details[k][1].Password = secrets[k][1].password

\* C10: an ensure interrupted after the secret was persisted, with or
\* without the objects applied and before the row was upserted, is resumed:
\* as long as the round keeps needing a server and external calls eventually
\* succeed, a later tick publishes a row carrying the ports and password of
\* the secret already persisted.
C10_EnsureResumes ==
    \A k \in Keys :
       (Reachable /\ secrets[k] # <<>> /\ details[k] = <<>>)
          ~> (Published(k) \/ Resolved(k))

\* C10 witness: an ensure that found the secret of an interrupted one and the
\* objects applied published the row, without allocating or generating
C10_Witness ==
    /\ EnsureSucceeded /\ ~ev.isNew
    /\ ev.det = <<>>
    /\ Published(ev.k)
    /\ InTrace("apply", ev.trace)
    /\ notes[ev.k] = 0

-----------------------------------------------------------------------------
(* The port allocator on its own                                           *)

\* Highest port number of the ranges and observed node-ports drawn
MaxPort == 5

\* Ranges PortRange.Validate accepts: 0 < start <= end; here at most two wide
RangeChoices ==
    {r \in [Start : 1..MaxPort, End : 1..MaxPort] : r.Start <= r.End /\ r.End <= r.Start + 1}

\* Node-port sets of an observed service list: none, an unset node-port (0),
\* or one node-port in use
NodePortChoices == {{}} \cup {{p} : p \in 0..MaxPort}

AllocInputs ==
    [fn        : {"Allocate"},
     ranges    : [Game : RangeChoices, SourceTV : RangeChoices,
                  Client : RangeChoices, Steam : RangeChoices],
     nodePorts : NodePortChoices]

\* The controller at rest in the plain deployment
AtRest ==
    /\ InitIn({Deployment(Plain, OneRound, Cluster)})
    /\ manual = [m \in MatchIDs |-> FALSE]

InitAlloc ==
    /\ AtRest
    /\ fin \in AllocInputs
    /\ fout = <<>>
    /\ run = NotStarted
    /\ peers = NoPeers

\* One call of Allocator.Allocate on the drawn input
AllocateCall ==
    /\ fout = <<>>
    /\ \E listFails \in BOOLEAN :
          fout' = <<Allocate(fin.ranges, fin.nodePorts, listFails)>>
    /\ UNCHANGED <<cfg, nodes, steamUp, rounds, manual, outcome, stores,
                   pc, mi, ri, fetched, faults, ev, fin, run, peers>>

NextAlloc == AllocateCall

SpecAlloc == InitAlloc /\ [][NextAlloc]_vars

InRange(p, r) == r.Start <= p /\ p <= r.End

\* C3: a successful Allocate returns four pairwise distinct ports, each
\* inside its own category's inclusive range, none of them a positive
\* node-port of an observed service; the ranges may overlap.
C3_AllocateSound ==
    (fout # <<>> /\ fout[1].ok) =>
        LET a == fout[1].assign
            r == fin.ranges
        IN  /\ Cardinality({a.Game, a.SourceTV, a.Client, a.Steam}) = 4
            /\ InRange(a.Game, r.Game)
            /\ InRange(a.SourceTV, r.SourceTV)
            /\ InRange(a.Client, r.Client)
            /\ InRange(a.Steam, r.Steam)
            /\ \A p \in fin.nodePorts :
                   p > 0 => p \notin {a.Game, a.SourceTV, a.Client, a.Steam}

\* C3 witness: a successful allocation from overlapping ranges that had to
\* step over an observed node-port
C3_Witness ==
    /\ fout # <<>> /\ fout[1].ok
    /\ fin.ranges.Game.Start \in fin.nodePorts
    /\ fin.ranges.SourceTV.Start = fout[1].assign.Game
    /\ fin.ranges.Client = fin.ranges.Steam

-----------------------------------------------------------------------------
(* A teardown that failed                                                  *)

\* The last step of the controller was a teardown of round k that returned
\* an error
TeardownFailed(k) ==
    ev.kind = "round" /\ ev.op = "teardown" /\ ev.k = k /\ ~ev.ok

\* Nothing of the round is left: no secret, no rendered object, no row
Released(k) == ~Claimed(k) /\ details[k] = <<>>

\* C11: a teardown of a resolved round that failed at one of its steps is run
\* again by a later tick while the round stays resolved, so that once external
\* calls succeed what is left of the round (objects, row, secret) is
\* eventually removed.
C11_TeardownRetried ==
    \A k \in Keys : TeardownFailed(k) ~> (Released(k) \/ ~Resolved(k))

-----------------------------------------------------------------------------
(* Several rounds in one match, and port ranges that run out               *)

\* PORT_RANGE_CLIENT and PORT_RANGE_GAME one port wide; PORT_RANGE_SOURCETV
\* equal to a one-port PORT_RANGE_GAME
NarrowClient == [PortRanges EXCEPT !.Client = [Start |-> 14, End |-> 14]]
NarrowGame == [PortRanges EXCEPT !.Game = [Start |-> 10, End |-> 10]]
SharedPort == [NarrowGame EXCEPT !.SourceTV = [Start |-> 10, End |-> 10]]

\* Match 1 with its two rounds returned in the other order
BackRounds == [m \in MatchIDs |-> IF m = 1 THEN <<2, 1>> ELSE <<>>]

\* generateSecret returns the same password and admin key on every call
FixedSecrets ==
    \A k \in Keys :
       secrets'[k] # <<>> =>
          secrets'[k][1].password = "pwA" /\ secrets'[k][1].rcon = "rcA"

\* Two rounds of one match with room for one server only, in either order of
\* the rounds, and one round with the identity registry in use and ranges
\* that can never be served; no match is manual-not-done
InitRounds ==
    /\ InitIn({Deployment([Plain EXCEPT !.Ports = NarrowClient], TwoRounds, Cluster),
               Deployment([Plain EXCEPT !.Ports = NarrowGame], BackRounds, Cluster),
               Deployment([Config(FALSE, TRUE, TRUE, TRUE, "", NoFilter, IPExternalFirst)
                              EXCEPT !.Ports = SharedPort], OneRound, Cluster)})
    /\ manual = [m \in MatchIDs |-> FALSE]
    /\ fin = <<>>
    /\ fout = <<>>
    /\ run = NotStarted
    /\ peers = NoPeers

NextRounds ==
    \/ Reconcile
    \/ ReconcileMatch
    \/ ReconcileRound /\ FixedSecrets
    \/ Restart
    \/ RecordOutcome
    \/ RegistryFlip

SpecRounds == InitRounds /\ [][NextRounds]_vars

\* Every port of the range is the node-port of a service in the namespace
RangeFull(r) == \A p \in r.Start..r.End : p \in serviceNodePorts(objects)

\* One of the four categories has no free port: its range is taken by the
\* services in the namespace, or its last port is reserved by a category
\* scanned before it in the same call
NoFreePort ==
    \/ RangeFull(cfg.Ports.Game) \/ RangeFull(cfg.Ports.SourceTV)
    \/ RangeFull(cfg.Ports.Client) \/ RangeFull(cfg.Ports.Steam)
    \/ ~Allocate(cfg.Ports, serviceNodePorts(objects), FALSE).ok

\* An ensure step for a round without a state secret whose load succeeded
NewStateStep ==
    /\ RoundStep /\ ev'.op = "ensure"
    /\ secrets[CurrentRound] = <<>>
    /\ ev'.hit # "load"

\* C12: when a new state is needed and a port category has no free port,
\* ensureRound fails at the allocation and writes nothing: no secret, no
\* identity account, no object, no ConnectionDetails row, no notification;
\* and every ensure that needs a new state starts with the allocation, so the
\* next tick attempts it again.
C12_ExhaustionWritesNothing ==
    [][/\ (NewStateStep /\ NoFreePort) =>
             /\ ~ev'.ok /\ ev'.hit = "alloc" /\ ev'.trace = <<>>
             /\ UNCHANGED stores
       /\ NewStateStep =>
             \/ ev'.hit = "alloc"
             \/ ev'.trace # <<>> /\ ev'.trace[1] = "alloc"]_vars

\* C12 witness: an ensure failed at the allocation with every external call
\* answering, while the server of the other round of the match holds the
\* only port of a range
C12_Witness ==
    /\ ev.kind = "round" /\ ev.op = "ensure" /\ ev.hit = "alloc"
    /\ RangeFull(cfg.Ports.Client)
    /\ secrets[ev.k] = <<>> /\ objects[ev.k] = NoObjects /\ details[ev.k] = <<>>
    /\ \E k \in Keys : k # ev.k /\ details[k] # <<>>

-----------------------------------------------------------------------------
(* The order of the effects of one call                                    *)

\* Position of an effect in the sequence of ensureRound and of teardownRound
EffectRank(label) ==
    CASE label = "alloc" -> 1 [] label = "gen" -> 2 [] label = "mint" -> 3
      [] label = "persist" -> 4 [] label = "apply" -> 5 [] label = "upsert" -> 6
      [] label = "notify" -> 7
      [] label = "delete" -> 1 [] label = "unpublish" -> 2
      [] label = "secretdelete" -> 3 [] label = "cleanup" -> 4

\* The effects were made in the order of the sequence
InOrder(trace) ==
    \A i, j \in 1..Len(trace) : i < j => EffectRank(trace[i]) <= EffectRank(trace[j])

\* How many times the effect occurs in the trace
Times(label, trace) == Cardinality({i \in 1..Len(trace) : trace[i] = label})

\* Number of objects the chart renders: the Deployment, and the Service
\* unless the pod uses the host network
Rendered == IF cfg.HostNetwork THEN 1 ELSE 2

\* C13: the external effects of one call come in a fixed order.  In ensure
\* the secret is persisted before any object is applied, every object is
\* applied before the ConnectionDetails row is upserted, and the row is
\* upserted before any notification is inserted.  In teardown every object is
\* deleted before the row is deleted, the row before the secret, and the
\* secret before the identity cleanup.
C13_EffectOrder ==
    (ev.kind = "round" /\ ev.op \in {"ensure", "teardown"}) =>
       /\ InOrder(ev.trace)
       /\ ev.op = "ensure" =>
             /\ InTrace("apply", ev.trace) =>
                   Times("persist", ev.trace) = 1 /\ secrets[ev.k] # <<>>
             /\ InTrace("upsert", ev.trace) =>
                   Times("apply", ev.trace) = Rendered /\ details[ev.k] # <<>>
             /\ InTrace("notify", ev.trace) => Times("upsert", ev.trace) = 1
       /\ ev.op = "teardown" =>
             /\ InTrace("unpublish", ev.trace) =>
                   Times("delete", ev.trace) = Rendered /\ objects[ev.k] = NoObjects
             /\ InTrace("secretdelete", ev.trace) =>
                   Times("unpublish", ev.trace) = 1 /\ details[ev.k] = <<>>
             /\ InTrace("cleanup", ev.trace) =>
                   Times("secretdelete", ev.trace) = 1 /\ secrets[ev.k] = <<>>

\* C13 witness: a teardown went through all four kinds of effect, two
\* objects deleted and an identity account removed
C13_Witness ==
    /\ ev.kind = "round" /\ ev.op = "teardown" /\ ev.ok
    /\ ev.trace = <<"delete", "delete", "unpublish", "secretdelete", "cleanup">>
    /\ notes[ev.k] = Len(Recipients(ev.k[1]))

\* None of the effects occurs in the trace
NoneOf(labels, trace) == \A i \in 1..Len(trace) : trace[i] \notin labels

\* The steps of ensureRound whose failure ends the call
FatalSteps == {"load", "alloc", "gen", "persist", "apply1", "apply2", "nodes", "upsert"}

\* C14: an ensureRound that fails at one of load, allocate, generate,
\* persist, apply, node discovery and upsert performs none of the steps after
\* it: a failed load or allocation leaves no effect at all, a failed
\* generation only the allocation, a failed persist no secret, no applied
\* object, no row and no notification, a failed apply no object after the
\* failing one, no row and no notification, a failed node discovery or upsert
\* no row and no notification.
C14_FailureStops ==
    [][(RoundStep /\ ev'.op = "ensure" /\ ~ev'.ok) =>
          /\ ev'.hit \in FatalSteps
          /\ ev'.hit \in {"load", "alloc"} => ev'.trace = <<>> /\ UNCHANGED stores
          /\ ev'.hit = "gen" => ev'.trace = <<"alloc">> /\ UNCHANGED stores
          /\ ev'.hit = "persist" =>
                /\ NoneOf({"persist", "apply", "upsert", "notify"}, ev'.trace)
                /\ UNCHANGED <<secrets, objects, details, notes>>
          /\ ev'.hit \in {"apply1", "apply2"} =>
                /\ NoneOf({"upsert", "notify"}, ev'.trace)
                /\ Times("apply", ev'.trace) = (IF ev'.hit = "apply1" THEN 0 ELSE 1)
                /\ ev'.hit = "apply1" => UNCHANGED objects
                /\ UNCHANGED <<details, notes>>
          /\ ev'.hit \in {"nodes", "upsert"} =>
                /\ NoneOf({"upsert", "notify"}, ev'.trace)
                /\ UNCHANGED <<details, notes>>]_vars

\* C14 witness: an ensure for a new round failed when it applied the second
\* object, with the secret persisted and the first object applied, and left
\* no row and no notification
C14_Witness ==
    /\ ev.kind = "round" /\ ev.op = "ensure" /\ ev.hit = "apply2" /\ ev.isNew
    /\ ev.trace = <<"alloc", "gen", "persist", "apply">>
    /\ secrets[ev.k] # <<>>
    /\ details[ev.k] = <<>> /\ notes[ev.k] = 0

-----------------------------------------------------------------------------
(* Rounds and matches within one tick                                      *)

\* The loop over the rounds handles a round that is not the last of its match
EarlierRoundStep ==
    /\ pc = "rounds" /\ ev'.kind = "round"
    /\ ri < Len(rounds[MatchList[mi]])

\* C15: a round that fails does not block the later rounds of its match in
\* the same tick: whatever happened to a round that is not the last one (map
\* lookup, ConnectionDetails fetch, ensure or teardown failed at any step, or
\* all went well), the controller goes on to the next round of the match.
C15_LaterRoundsProcessed ==
    [][EarlierRoundStep => pc' = "rounds" /\ mi' = mi /\ ri' = ri + 1]_vars

\* C16: the matches of a tick are reconciled one after another in the order
\* of the match query: a tick whose query succeeded starts with the first
\* match, and the controller leaves a match, failed or not, only for the
\* match after it, or for the end of the tick after the last one; a match
\* whose division, league, roster or round fetch failed has written nothing.
\* A tick whose match query failed does no per-match work and writes nothing.
C16_MatchesInOrder ==
    [][/\ (pc = "idle" /\ ev'.kind = "tick") =>
             /\ UNCHANGED stores
             /\ IF ev'.ok THEN pc' = "match" /\ mi' = 1 ELSE pc' = "idle"
       /\ ev'.kind \in {"match", "round"} =>
             \/ pc' = "rounds" /\ mi' = mi
             \/ mi < Len(MatchList) /\ pc' = "match" /\ mi' = mi + 1
             \/ mi = Len(MatchList) /\ pc' = "idle"
       /\ (ev'.kind = "match" /\ ~ev'.ok) =>
             /\ UNCHANGED stores
             /\ pc' # "rounds"]_vars

\* C16 witness: the reconcile of the first match failed at the division
\* fetch and the controller stands at the second match, which passes the
\* filter and has a round
C16_Witness ==
    /\ ev.kind = "match" /\ ev.k = <<1, 0>> /\ ~ev.ok /\ ev.hit = "division"
    /\ pc = "match" /\ mi = 2
    /\ divisionMatchesFilter(DivisionName(MatchList[mi]), cfg.DivisionFilters)
    /\ rounds[MatchList[mi]] # <<>>

-----------------------------------------------------------------------------
(* The loop of Run                                                         *)

\* What Run leaves alone besides the tick it starts
aside == <<cfg, nodes, steamUp, rounds, manual, outcome, stores, faults, fin, fout, peers>>

\* Run creates its ticker and calls reconcile at once, without looking at
\* the stop signal
RunFirst ==
    /\ run.at = "new"
    /\ run' = [run EXCEPT !.at = "first", !.inflight = @ + 1]
    /\ \E queryFails \in BOOLEAN : ReconcileWith(queryFails)

\* Variant of RunTick: reconcile is started on a goroutine of its own and the loop
\* goes back to its select
RunTickDetached ==
    /\ run.at = "select" /\ run.timer = 1
    /\ run' = [run EXCEPT !.timer = 0, !.inflight = @ + 1]
    /\ \E queryFails \in BOOLEAN : ReconcileWith(queryFails)

\* The select of Run takes the ticker case and calls reconcile
RunTick ==
    /\ run.at = "select" /\ run.timer = 1
    /\ run' = [run EXCEPT !.at = "tick", !.timer = 0, !.inflight = @ + 1]
    /\ \E queryFails \in BOOLEAN : ReconcileWith(queryFails)

\* reconcile returns to Run, which logs its error if any and selects again
ReconcileReturns ==
    /\ run.inflight > 0 /\ pc = "idle"
    /\ run' = [run EXCEPT !.at = IF @ \in {"first", "tick"} THEN "select" ELSE @,
                          !.inflight = @ - 1]
    /\ UNCHANGED <<aside, pc, mi, ri, fetched, ev>>

\* Variant of RunDone: the cancellation case leaves the select only, not the loop
RunDoneBreak ==
    /\ run.at = "select" /\ run.done
    /\ run' = [run EXCEPT !.seen = TRUE]
    /\ UNCHANGED <<aside, pc, mi, ri, fetched, ev>>

\* Variant of RunDone: the context is looked at only when a tick arrives
RunDoneAfterTick ==
    /\ run.at = "select" /\ run.done /\ run.timer = 1
    /\ run' = [run EXCEPT !.at = "returned", !.seen = TRUE, !.timer = 0]
    /\ UNCHANGED <<aside, pc, mi, ri, fetched, ev>>

\* The select of Run takes the ctx.Done case: Run returns ctx.Err(), which
\* runController takes for a clean exit
RunDone ==
    /\ run.at = "select" /\ run.done
    /\ run' = [run EXCEPT !.at = "returned", !.seen = TRUE]
    /\ UNCHANGED <<aside, pc, mi, ri, fetched, ev>>

\* The ticker fires: the tick waits in the channel, which holds one tick; a
\* tick that finds the channel full is dropped
TimerFire ==
    /\ run.at \in {"first", "select", "tick"} /\ run.timer = 0
    /\ run' = [run EXCEPT !.timer = 1]
    /\ UNCHANGED <<aside, pc, mi, ri, fetched, ev>>

\* SIGTERM or SIGINT arrives: signalContext cancels the context
Cancel ==
    /\ ~run.done
    /\ run' = [run EXCEPT !.done = TRUE]
    /\ UNCHANGED <<aside, pc, mi, ri, fetched, ev>>

\* One scheduled round in the plain deployment, Run about to be called
InitRun ==
    /\ InitIn({Deployment(Plain, OneRound, Cluster)})
    /\ fin = <<>>
    /\ fout = <<>>
    /\ run = NotStarted
    /\ peers = NoPeers

NextRun ==
    \/ RunFirst
    \/ RunTick
    \/ RunDone
    \/ ReconcileMatch
    \/ ReconcileRound
    \/ ReconcileReturns
    \/ TimerFire
    \/ Cancel
    \/ RecordOutcome
    \/ ClearManual

\* The reconcile in flight takes its next step, to whatever position
Proceed ==
    /\ pc # "idle"
    /\ \E p \in {"idle", "match", "rounds"}, m \in 0..Len(MatchList), r \in 0..2 :
          pc' = p /\ mi' = m /\ ri' = r

\* Run is called, every call reconcile makes returns, reconcile returns to
\* Run, and a select that finds the context cancelled again and again takes
\* that case at some point (it picks among the ready cases at random).
RunFairness ==
    /\ WF_vars(RunFirst)
    /\ WF_position(Proceed)
    /\ WF_vars(ReconcileReturns)
    /\ SF_vars(RunDone)

SpecRun == InitRun /\ [][NextRun]_vars /\ RunFairness

\* A call of reconcile begins
Begins == run'.inflight > run.inflight

\* C17: Run calls reconcile at once when it starts, before it selects for
\* the first time; every later reconcile takes one tick out of the ticker
\* channel; and a reconcile begins only when none is in flight, so a tick that
\* fires during a reconcile waits until that reconcile has returned.
C17_OneReconcileAtATime ==
    [][/\ (run.at = "new" /\ run'.at # "new") => run'.at = "first" /\ Begins
       /\ (Begins /\ run.at # "new") =>
             run.at = "select" /\ run.timer = 1 /\ run'.timer = 0
       /\ Begins => run.inflight = 0 /\ pc = "idle"
       /\ pc' # "idle" => run'.inflight = 1 /\ run'.at \in {"first", "tick"}]_vars

\* C17 witness: the ticker fired while the reconcile of an earlier tick is
\* still working on a round
C17_Witness ==
    /\ run.at = "tick" /\ run.timer = 1 /\ run.inflight = 1
    /\ pc = "rounds"

\* C18 as stated: after the stop signal is cancelled no call of reconcile
\* begins, also when the ticker channel is ready at the next select and also
\* for the initial reconcile of a Run started with the signal cancelled.
C18_NoReconcileAfterCancel ==
    [][run.done => ~Begins]_vars

\* C18 amended: once the select of Run has taken the cancellation case, Run
\* returns and no call of reconcile begins any more; a reconcile that begins
\* after the signal was cancelled and before that is the initial one or one
\* whose tick was waiting in the ticker channel when Run selected.
C18_NoReconcileAfterObserved ==
    [][/\ run'.seen => run'.at = "returned"
       /\ run.seen => ~Begins
       /\ (run.done /\ Begins) =>
             \/ run.at = "new"
             \/ run.at = "select" /\ run.timer = 1]_vars

\* C18 witness: Run returned on the cancellation while a tick was waiting in
\* the ticker channel
C18_Witness ==
    /\ run.seen /\ run.at = "returned"
    /\ run.timer = 1 /\ run.inflight = 0

\* C19: after the stop signal is cancelled, and with every call of the
\* reconcile in flight returning, Run eventually returns on the cancellation
\* case.
C19_RunReturns ==
    run.done ~> (run.at = "returned" /\ run.seen /\ run.inflight = 0)

\* C19 witness: Run returned on the cancellation after a reconcile that
\* published the server of a round and went through the last match
C19_Witness ==
    /\ run.at = "returned" /\ run.done
    /\ ev.kind = "match" /\ pc = "idle"
    /\ details[<<1, 1>>] # <<>>
    /\ run.timer = 0

-----------------------------------------------------------------------------
(* Notifications                                                           *)

\* C20: over any sequence of ticks and restarts, notification rows of a round
\* are inserted only by an ensure of that round that found no state secret
\* and created one, at most one row per recipient; an ensure that finds the
\* secret, whatever it refreshes, inserts none.  So every creation of the
\* secret is followed by at most one notifying call.
C20_NotifyOncePerCreation ==
    [][\A k \in Keys :
          notes'[k] # notes[k] =>
             /\ ev'.kind = "round" /\ ev'.op = "ensure" /\ ev'.k = k
             /\ ev'.isNew /\ cfg.NotificationsEnabled
             /\ secrets[k] = <<>> /\ secrets'[k] # <<>>
             /\ notes'[k] > notes[k]
             /\ notes'[k] <= notes[k] + Len(Recipients(k[1]))]_vars

\* C20 witness: a later ensure found the secret of a round whose teams were
\* notified at its creation, succeeded, and the rows are still one per
\* recipient
C20_Witness ==
    /\ ev.kind = "round" /\ ev.op = "ensure" /\ ev.ok /\ ~ev.isNew
    /\ cfg.NotificationsEnabled
    /\ ev.det # <<>>
    /\ notes[ev.k] = Len(Recipients(ev.k[1]))

-----------------------------------------------------------------------------
(* The database writes on their own                                        *)

\* Repository.UpsertMatchDetails: INSERT ... ON CONFLICT (match_id, round_id)
\* DO UPDATE on matches_server_details
UpsertMatchDetails(table, k, row) == [table EXCEPT ![k] = <<row>>]

\* Repository.DeleteMatchDetails: DELETE ... WHERE match_id, round_id
DeleteMatchDetails(table, k) == [table EXCEPT ![k] = <<>>]

\* Repository.createUserNotification: a plain INSERT into user_notifications
createUserNotification(rows, user, message) ==
    Append(rows, [user |-> user, read |-> FALSE, message |-> message])

\* Repository.SendNotificationsToTeams: one insert per recipient, home roster
\* first
RECURSIVE SendNotificationsToTeams(_, _, _)
SendNotificationsToTeams(rows, recipients, message) ==
    IF recipients = <<>> THEN rows
    ELSE SendNotificationsToTeams(createUserNotification(rows, Head(recipients), message),
                                  Tail(recipients), message)

\* ConnectionDetails payloads and tables drawn
RowChoices ==
    { [ServerIP |-> "e2", Port |-> 10, SourceTVPort |-> 12, Password |-> "pwA", Map |-> <<"x">>],
      [ServerIP |-> "i1", Port |-> 11, SourceTVPort |-> 13, Password |-> "pwB", Map |-> <<"d">>] }

TableChoices == [Keys -> {<<>>} \cup {<<r>> : r \in RowChoices}]

\* user_notifications before the call, rosters and messages drawn
NotificationChoices == {<<>>, <<[user |-> "home", read |-> FALSE, message |-> "m1"]>>}

RosterChoices == {<<>>, <<"home">>, <<"home", "away">>}

DbInputs ==
    [fn : {"UpsertMatchDetails"}, table : TableChoices, k : Keys, row : RowChoices]
    \cup [fn : {"DeleteMatchDetails"}, table : TableChoices, k : Keys]
    \cup [fn : {"SendNotificationsToTeams"}, rows : NotificationChoices,
          recipients : RosterChoices, message : {"m1", "m2"}]

InitDb ==
    /\ AtRest
    /\ fin \in DbInputs
    /\ fout = <<>>
    /\ run = NotStarted
    /\ peers = NoPeers

\* The rows the next call finds: those drawn, or those the call before left
RowsNow == IF fout = <<>>
           THEN (IF fin.fn = "SendNotificationsToTeams" THEN fin.rows ELSE fin.table)
           ELSE fout[Len(fout)]

\* The write is performed, and performed once more with the same arguments
UpsertCall ==
    /\ fin.fn = "UpsertMatchDetails" /\ Len(fout) < 2
    /\ fout' = Append(fout, UpsertMatchDetails(RowsNow, fin.k, fin.row))
    /\ UNCHANGED <<cfg, nodes, steamUp, rounds, manual, outcome, stores,
                   pc, mi, ri, fetched, faults, ev, fin, run, peers>>

DeleteCall ==
    /\ fin.fn = "DeleteMatchDetails" /\ Len(fout) < 2
    /\ fout' = Append(fout, DeleteMatchDetails(RowsNow, fin.k))
    /\ UNCHANGED <<cfg, nodes, steamUp, rounds, manual, outcome, stores,
                   pc, mi, ri, fetched, faults, ev, fin, run, peers>>

NotifyCall ==
    /\ fin.fn = "SendNotificationsToTeams" /\ Len(fout) < 2
    /\ fout' = Append(fout, SendNotificationsToTeams(RowsNow, fin.recipients, fin.message))
    /\ UNCHANGED <<cfg, nodes, steamUp, rounds, manual, outcome, stores,
                   pc, mi, ri, fetched, faults, ev, fin, run, peers>>

NextDb ==
    \/ UpsertCall
    \/ DeleteCall
    \/ NotifyCall

SpecDb == InitDb /\ [][NextDb]_vars

\* C21: every database write is idempotent under retry: UpsertMatchDetails,
\* DeleteMatchDetails or SendNotificationsToTeams performed twice with the
\* same arguments leaves the same rows as performed once.
C21_WritesIdempotent ==
    Len(fout) = 2 => fout[2] = fout[1]

-----------------------------------------------------------------------------
(* Teardown of a round whose state secret is gone                          *)

\* The state secret of a round is removed from the namespace by someone
\* other than the controller.  Only the removal from a round whose outcome
\* is recorded is followed: that is the round a teardown comes to.
SecretRemoved ==
    /\ \E k \in Keys :
          /\ outcome[k]
          /\ secrets[k] # <<>>
          /\ secrets' = [secrets EXCEPT ![k] = <<>>]
    /\ ev' = Ev("site", NoKey, "none", FALSE, NoOutcome, <<>>, <<>>, <<>>)
    /\ UNCHANGED <<cfg, nodes, steamUp, rounds, manual, outcome, details, notes, objects, accounts, pc, mi, ri, fetched, faults, fin, fout, run, peers>>

PortKeys == {"game_port", "sourcetv_port", "client_port", "steam_port"}

\* What a port key may hold that is no decimal integer: nothing (the key
\* missing or empty), a letter, a digit followed by a letter
BadPortValues == {<<>>, <<"x">>, <<"1", "x">>}

\* One port key of a state secret that loads is changed, by someone other
\* than the controller, into a value that is no decimal integer
SecretCorrupted ==
    /\ \E k \in Keys, key \in PortKeys, bad \in BadPortValues :
          /\ secrets[k] # <<>>
          /\ ~loadServerState(secrets[k], FALSE).err
          /\ secrets' = [secrets EXCEPT ![k] = <<[secrets[k][1] EXCEPT ![key] = bad]>>]
    /\ ev' = Ev("site", NoKey, "none", FALSE, NoOutcome, <<>>, <<>>, <<>>)
    /\ UNCHANGED <<cfg, nodes, steamUp, rounds, manual, outcome, details, notes, objects, accounts, pc, mi, ri, fetched, faults, fin, fout, run, peers>>

InitLost ==
    /\ InitIn({ Deployment(Plain, OneRound, Cluster),
                Deployment(Config(TRUE, FALSE, FALSE, FALSE, "static", NoFilter, IPInternalOnly),
                           OneRound, Cluster) })
    /\ manual = [m \in MatchIDs |-> FALSE]
    /\ fin = <<>>
    /\ fout = <<>>
    /\ run = NotStarted
    /\ peers = NoPeers

NextLost ==
    \/ Reconcile
    \/ ReconcileMatch
    \/ ReconcileRound /\ FixedSecrets
    \/ Restart
    \/ RecordOutcome
    \/ SecretRemoved
    \/ SecretCorrupted

SpecLost == InitLost /\ [][NextLost]_vars

\* A teardown of the current round that finds no state secret
TeardownWithoutSecret ==
    RoundStep /\ ev'.op = "teardown" /\ secrets[CurrentRound] = <<>>

\* C22: a teardown that finds no state secret does not fail on that: the
\* load reports no error, the state it works with is rebuilt from the
\* ConnectionDetails row (game port = port of the row, spectator port =
\* sourcetvport, client port = port + 1, auxiliary port = port + 2, the
\* password of the row, no admin key, the static token), and when no call
\* fails every object of the release is deleted, the row is deleted and
\* the call succeeds.
C22_TeardownWithoutSecret ==
    [][TeardownWithoutSecret =>
         LET k == CurrentRound
             row == details[k][1]
             state == synthesizeState(row, ev'.map)
         IN  /\ ~loadServerState(secrets[k], FALSE).err
             /\ state.Ports = [Game |-> row.Port, SourceTV |-> row.SourceTVPort,
                               Client |-> row.Port + 1, Steam |-> row.Port + 2]
             /\ state.Password = row.Password
             /\ state.RCON = ""
             /\ state.Token = cfg.StaticToken
             /\ ev'.hit \in TeardownFaults
             /\ ev'.hit = "none" =>
                   /\ ev'.ok
                   /\ Times("delete", ev'.trace) = Rendered
                   /\ InTrace("unpublish", ev'.trace)
                   /\ objects'[k] = NoObjects
                   /\ details'[k] = <<>>
                   /\ secrets'[k] = <<>>
             /\ ev'.hit # "none" => ~ev'.ok]_vars

\* C22 witness: a teardown succeeded for a round that had a row and objects
\* but no state secret
C22_Witness ==
    /\ ev.kind = "round" /\ ev.op = "teardown" /\ ev.ok
    /\ ev.det # <<>> /\ ev.isNew
    /\ Times("delete", ev.trace) = 2
    /\ details[ev.k] = <<>> /\ objects[ev.k] = NoObjects

-----------------------------------------------------------------------------
(* Two controller processes on the same round                              *)

Peers == {1, 2}

\* The round both processes ensure
PeerKey == <<1, 1>>

\* A process about to call ensureRound: at is the next call it makes, loaded
\* what loadServerState returned, state the state it will persist, stale
\* whether the secret was written since the process read its resource version
PeerIdle == [at |-> "load", loaded |-> <<>>, state |-> <<>>, stale |-> FALSE]

\* The step is made by process i
PeerMoves(i) == peers' = [peers EXCEPT ![i] = peers'[i]]

\* What a step of a process leaves alone besides the stores it writes
PeerFrame == <<cfg, nodes, steamUp, rounds, manual, outcome, details, notes, accounts, pc, mi, ri, fetched, faults, ev, fin, fout, run>>

\* ensureRound: loadServerState
PeerLoad(i) ==
    /\ peers[i].at = "load"
    /\ LET ld == loadServerState(secrets[PeerKey], FALSE) IN
          peers' = [peers EXCEPT ![i] = [PeerIdle EXCEPT !.at = "build", !.loaded = ld.state]]
    /\ UNCHANGED <<secrets, objects>>
    /\ UNCHANGED PeerFrame

\* ensureRound: the state to persist, new (ports allocated from the services
\* listed now, secrets generated, no registry configured) or refreshed
PeerBuild(i) ==
    /\ peers[i].at = "build"
    /\ LET al == Allocate(cfg.Ports, serviceNodePorts(objects), FALSE) IN
          IF peers[i].loaded = <<>>
          THEN IF ~al.ok
               THEN peers' = [peers EXCEPT ![i].at = "failed"]
               ELSE \E pw \in PasswordPool :
                       peers' = [peers EXCEPT ![i].at = "get",
                                              ![i].state = << [Ports |-> al.assign,
                                                               Password |-> pw,
                                                               RCON |-> FirstOf(RconPool),
                                                               Map |-> cfg.DefaultMap,
                                                               Token |-> cfg.StaticToken] >>]
          ELSE peers' = [peers EXCEPT ![i].at = "get",
                                      ![i].state = << [peers[i].loaded[1] EXCEPT
                                                          !.Map = preferValue(<<cfg.DefaultMap, @, cfg.DefaultMap>>),
                                                          !.Token = IF @ = "" THEN cfg.StaticToken ELSE @] >>]
    /\ UNCHANGED <<secrets, objects>>
    /\ UNCHANGED PeerFrame

\* persistStateSecret: Get, which yields the resource version the Update
\* will carry
PeerGet(i) ==
    /\ peers[i].at = "get"
    /\ peers' = [peers EXCEPT ![i].at = IF secrets[PeerKey] = <<>> THEN "create" ELSE "update",
                              ![i].stale = FALSE]
    /\ UNCHANGED <<secrets, objects>>
    /\ UNCHANGED PeerFrame

\* The secret is written by process i: the resource version every other
\* process holds is now an old one
Written(i, at) == [j \in Peers |-> IF j = i THEN [peers[i] EXCEPT !.at = at] ELSE [peers[j] EXCEPT !.stale = TRUE]]

\* persistStateSecret: Create after NotFound; AlreadyExists if the secret
\* has appeared since
PeerCreate(i) ==
    /\ peers[i].at = "create"
    /\ IF secrets[PeerKey] # <<>>
       THEN /\ peers' = [peers EXCEPT ![i].at = "failed"]
            /\ UNCHANGED secrets
       ELSE /\ secrets' = [secrets EXCEPT ![PeerKey] = <<secretData(peers[i].state[1], cfg.DefaultMap)>>]
            /\ peers' = Written(i, "apply")
    /\ UNCHANGED objects
    /\ UNCHANGED PeerFrame

\* persistStateSecret: Update with the resource version of the Get; Conflict
\* if the secret was written since
PeerUpdate(i) ==
    /\ peers[i].at = "update"
    /\ IF peers[i].stale
       THEN /\ peers' = [peers EXCEPT ![i].at = "failed"]
            /\ UNCHANGED secrets
       ELSE /\ secrets' = [secrets EXCEPT ![PeerKey] = <<secretData(peers[i].state[1], cfg.DefaultMap)>>]
            /\ peers' = Written(i, "apply")
    /\ UNCHANGED objects
    /\ UNCHANGED PeerFrame

\* ensureRound: the objects of the release are applied
PeerApply(i) ==
    /\ peers[i].at = "apply"
    /\ LET values == buildValues(peers[i].state[1], cfg.HostNetwork, cfg.DefaultMap)
           order  == renderObjects(values, FirstOf(KindOrders))
       IN  objects' = [objects EXCEPT ![PeerKey] = applyObjects(@, values, order, 0)]
    /\ peers' = [peers EXCEPT ![i].at = "done"]
    /\ UNCHANGED secrets
    /\ UNCHANGED PeerFrame

\* The next tick of process i calls ensureRound again
PeerTick(i) ==
    /\ peers[i].at \in {"failed", "done"}
    /\ peers' = [peers EXCEPT ![i] = PeerIdle]
    /\ UNCHANGED <<secrets, objects>>
    /\ UNCHANGED PeerFrame

InitPeers ==
    /\ InitIn({ Deployment(Plain, OneRound, Cluster) })
    /\ manual = [m \in MatchIDs |-> FALSE]
    /\ fin = <<>>
    /\ fout = <<>>
    /\ run = NotStarted
    /\ peers = [i \in Peers |-> PeerIdle]

NextPeers ==
    \/ \E i \in Peers : PeerLoad(i)
    \/ \E i \in Peers : PeerBuild(i)
    \/ \E i \in Peers : PeerGet(i)
    \/ \E i \in Peers : PeerCreate(i)
    \/ \E i \in Peers : PeerUpdate(i)
    \/ \E i \in Peers : PeerApply(i)
    \/ \E i \in Peers : PeerTick(i)

SpecPeers == InitPeers /\ [][NextPeers]_vars

\* C23: of two processes that ensure the same round starting from no state
\* secret at most one writes the secret: once the secret exists, the persist
\* of a process that loaded none leaves the password and the ports of the
\* first persist as they are, never replacing them by the values the
\* process generated itself.
C23_FirstPersistKept ==
    [][\A i \in Peers :
          (peers[i].at \in {"create", "update"} /\ peers[i].loaded = <<>>
             /\ secrets[PeerKey] # <<>> /\ peers'[i] # peers[i]) =>
                /\ secrets'[PeerKey] # <<>>
                /\ secrets'[PeerKey][1].password = secrets[PeerKey][1].password
                /\ secrets'[PeerKey][1].game_port = secrets[PeerKey][1].game_port]_vars

-----------------------------------------------------------------------------
(* Token minting                                                           *)

\* An ensure of the current round that got as far as the token: the load of
\* the secret, the allocation and the generation of the secrets did not fail
EnsureWithToken ==
    RoundStep /\ ev'.op = "ensure" /\ ev'.hit \notin {"load", "alloc", "gen"}

\* ensureRound asks for a token: no secret, or a secret with an empty token
WantsToken(k) == secrets[k] = <<>> \/ secrets[k][1].token = ""

\* The call to the identity registry fails
RegistryFails(k) == cfg.SteamClient /\ (~steamUp \/ accounts[k] >= MaxAccounts)

\* C24: token minting never makes ensure fail.  When ensure wants a token (no
\* secret, or a stored token that is empty) and the registry call fails, the
\* token of the state is the static token and ensure goes on to persist,
\* apply and publish, a failure being one of those steps' own; the registry
\* is called, and an account created, only when ensure wants a token, and a
\* stored token that is not empty is kept.
C24_MintNeverFatal ==
    [][EnsureWithToken =>
         LET k == CurrentRound IN
            /\ (WantsToken(k) /\ RegistryFails(k)) =>
                  /\ ~InTrace("mint", ev'.trace)
                  /\ ev'.hit # "persist" =>
                        /\ InTrace("persist", ev'.trace)
                        /\ secrets'[k] # <<>>
                        /\ secrets'[k][1].token = cfg.StaticToken
                  /\ ev'.hit = "none" =>
                        /\ ev'.ok
                        /\ Times("apply", ev'.trace) = Rendered
                        /\ InTrace("upsert", ev'.trace)
                        /\ details'[k] # <<>>
            /\ (InTrace("mint", ev'.trace) \/ accounts'[k] # accounts[k]) => WantsToken(k)
            /\ (~WantsToken(k) /\ ev'.hit # "persist") =>
                  secrets'[k][1].token = secrets[k][1].token]_vars

\* C24 witness: with the registry down an ensure found a secret whose token
\* was empty and succeeded with the static token
C24_Witness ==
    /\ ev.kind = "round" /\ ev.op = "ensure" /\ ev.ok /\ ~ev.isNew
    /\ cfg.SteamClient /\ ~steamUp
    /\ cfg.StaticToken = ""
    /\ secrets[ev.k][1].token = cfg.StaticToken
    /\ details[ev.k] # <<>>

-----------------------------------------------------------------------------
(* Node discovery without an IPv4 address                                  *)

\* No address of any node is an IPv4 address
NoIPv4 == \A i \in 1..Len(Flatten(nodes)) : ~Flatten(nodes)[i].v4

\* C25: when no node of the cluster has an IPv4 address, ensureRound fails
\* and publishes nothing: the ConnectionDetails row of the round is neither
\* inserted nor updated and no notification is inserted in that call.
C25_NoAddressNoPublish ==
    [][(RoundStep /\ ev'.op = "ensure" /\ NoIPv4) =>
          /\ ~ev'.ok
          /\ ev'.hit \in FatalSteps
          /\ NoneOf({"upsert", "notify"}, ev'.trace)
          /\ details' = details
          /\ notes' = notes]_vars

\* C25 witness: in a cluster without IPv4 addresses an ensure persisted the
\* secret, applied both objects and failed at node discovery, no row written
C25_Witness ==
    /\ ev.kind = "round" /\ ev.op = "ensure" /\ ~ev.ok /\ ev.hit = "nodes"
    /\ NoIPv4
    /\ Times("apply", ev.trace) = 2
    /\ secrets[ev.k] # <<>>
    /\ details[ev.k] = <<>> /\ notes[ev.k] = 0

-----------------------------------------------------------------------------
(* The state secret on its own                                             *)

\* Ports of a state: negative, zero, one digit, several digits
PortChoices == {0 - 3, 0, 7, 10, 105}

\* Map names: empty, blank, plain, with blanks around
MapChoices == {<<>>, <<" ">>, <<"m">>, <<" ", "m", " ">>}

StateChoices ==
    [Ports    : [Game : PortChoices, SourceTV : PortChoices, Client : {0, 14}, Steam : {0 - 3, 8}],
     Password : {"", "pw", " p "},
     RCON     : {"", "rc"},
     Map      : MapChoices,
     Token    : {"", "tok"}]

SecretInputs ==
    [fn : {"persistStateSecret"}, state : StateChoices, defaultMap : {<<"d">>, <<" ", "d">>}]

InitSecret ==
    /\ AtRest
    /\ fin \in SecretInputs
    /\ fout = <<>>
    /\ run = NotStarted
    /\ peers = NoPeers

\* persistStateSecret on the drawn state, then loadServerState on the secret
\* it wrote
PersistLoadCall ==
    /\ fout = <<>>
    /\ fin.fn = "persistStateSecret"
    /\ fout' = <<loadServerState(<<secretData(fin.state, fin.defaultMap)>>, FALSE)>>
    /\ UNCHANGED <<cfg, nodes, steamUp, rounds, manual, outcome, stores,
                   pc, mi, ri, fetched, faults, ev, fin, run, peers>>

NextSecret == PersistLoadCall

SpecSecret == InitSecret /\ [][NextSecret]_vars

\* C26: persisting a state and loading the secret straight after gives the
\* state back: no error, the same four ports, password, admin key and
\* token, and as map the first of (state map, default map) that is not empty
\* after trimming, trimmed.  (The release name is the key the secret is
\* stored and read under.)
C26_PersistLoadRoundTrip ==
    fout # <<>> =>
       /\ ~fout[1].err
       /\ fout[1].state # <<>>
       /\ fout[1].state[1].Ports = fin.state.Ports
       /\ fout[1].state[1].Password = fin.state.Password
       /\ fout[1].state[1].RCON = fin.state.RCON
       /\ fout[1].state[1].Token = fin.state.Token
       /\ fout[1].state[1].Map =
             IF TrimSpace(fin.state.Map) # <<>> THEN TrimSpace(fin.state.Map)
             ELSE TrimSpace(fin.defaultMap)

\* C26 witness: a state with a negative and a three-digit port, a password
\* with blanks and a blank map came back, the map being the default map
C26_Witness ==
    /\ fout # <<>>
    /\ fin.fn = "persistStateSecret"
    /\ fin.state.Ports.Game = 105 /\ fin.state.Ports.Steam < 0
    /\ fin.state.Password = " p " /\ fin.state.Map = <<" ">>
    /\ fin.defaultMap = <<" ", "d">>
    /\ fout[1].state[1].Ports.Game = 105
    /\ fout[1].state[1].Map = <<"d">>

-----------------------------------------------------------------------------
(* A state secret that does not parse                                      *)

\* An optional sign, then one or more decimal digits
Decimal(s) ==
    /\ s # <<>>
    /\ LET body == IF Head(s) \in {"+", "-"} THEN Tail(s) ELSE s IN
          body # <<>> /\ \A i \in 1..Len(body) : IsDigit(body[i])

\* The secret exists and one of its four port keys is missing, empty or no
\* decimal integer
Unparsable(secret) ==
    secret # <<>> /\ \E key \in PortKeys : ~Decimal(secret[1][key])

\* C27: loadServerState maps an absent secret to no state without an error,
\* and returns an error for a secret one of whose four port keys is missing,
\* empty or no decimal integer; ensureRound and teardownRound then return at
\* once: nothing is allocated, the secret is not overwritten, no object is
\* applied or deleted, no row and no notification is written.
C27_LoadErrors ==
    [][(RoundStep /\ ev'.op \in {"ensure", "teardown"}) =>
         LET k == CurrentRound
             ld == loadServerState(secrets[k], FALSE)
         IN  /\ secrets[k] = <<>> => ~ld.err /\ ld.state = <<>>
             /\ Unparsable(secrets[k]) =>
                   /\ ld.err
                   /\ ~ev'.ok
                   /\ ev'.hit = "load"
                   /\ ev'.trace = <<>>
                   /\ UNCHANGED stores]_vars

\* C27 witness: a teardown returned at the load of a secret whose port key
\* holds a letter; the row, the objects and the secret are still there
C27_Witness ==
    /\ ev.kind = "round" /\ ev.op = "teardown" /\ ~ev.ok /\ ev.hit = "load"
    /\ Unparsable(secrets[ev.k])
    /\ \E key \in PortKeys : secrets[ev.k][1][key] = <<"1", "x">>
    /\ details[ev.k] # <<>>
    /\ objects[ev.k] # NoObjects

-----------------------------------------------------------------------------
(* What a call for one round leaves alone                                  *)

\* Variant of releaseName: the round is left out of the name
releaseNameOfMatch(k) == <<"u", "d", "l", "-">> \o Itoa(k[1])

\* releaseName: fmt.Sprintf("udl-%d-r%d", matchID, roundID)
releaseName(k) == <<"u", "d", "l", "-">> \o Itoa(k[1]) \o <<"-", "r">> \o Itoa(k[2])

\* secretName: fmt.Sprintf("%s-settings", releaseName)
secretName(release) == release \o <<"-", "s", "e", "t", "t", "i", "n", "g", "s">>

\* C28: an ensure or a teardown of round (m, r) works on the secret
\* udl-<m>-r<r>-settings, the objects of release udl-<m>-r<r> and the row of
\* (m, r) only: every other pair has another release name and another
\* secret name, and its secret, its objects and its row are unchanged.
C28_OtherRoundsUntouched ==
    [][(RoundStep /\ ev'.op \in {"ensure", "teardown"}) =>
          /\ releaseName(CurrentRound) =
                <<"u", "d", "l", "-">> \o Itoa(MatchList[mi]) \o <<"-", "r">> \o Itoa(rounds[MatchList[mi]][ri])
          /\ \A j \in Keys \ {CurrentRound} :
                /\ releaseName(j) # releaseName(CurrentRound)
                /\ secretName(releaseName(j)) # secretName(releaseName(CurrentRound))
                /\ secrets'[j] = secrets[j]
                /\ objects'[j] = objects[j]
                /\ details'[j] = details[j]]_vars

\* C28 witness: a teardown removed the secret, the objects and the row of
\* one round while another round of the same match kept all three
C28_Witness ==
    /\ ev.kind = "round" /\ ev.op = "teardown" /\ ev.ok
    /\ secrets[ev.k] = <<>> /\ details[ev.k] = <<>> /\ objects[ev.k] = NoObjects
    /\ \E j \in Keys \ {ev.k} :
          /\ j[1] = ev.k[1]
          /\ secrets[j] # <<>> /\ details[j] # <<>> /\ objects[j] # NoObjects

-----------------------------------------------------------------------------
(* Lowest free port first                                                  *)

\* The ports of a range that are not taken
Free(range, taken) == {p \in range.Start..range.End : p \notin taken}

Least(ports) == CHOOSE p \in ports : \A q \in ports : p <= q

\* C29: Allocate takes the categories in the order game, spectator, client,
\* auxiliary and gives each the smallest port of its range that is neither a
\* positive node-port of the observed services nor given to an earlier
\* category in the call; it fails when a category has no such port.  The
\* assignment is thus a function of the observation and the ranges: two
\* calls on the same input return the same assignment.
C29_LowestFirst ==
    (fout # <<>> /\ fin.fn = "Allocate") =>
       LET used0 == {p \in fin.nodePorts : p > 0}
           fg == Free(fin.ranges.Game, used0)
       IN  IF fg = {} THEN ~fout[1].ok
           ELSE LET ft == Free(fin.ranges.SourceTV, used0 \cup {Least(fg)}) IN
                IF ft = {} THEN ~fout[1].ok
                ELSE LET fc == Free(fin.ranges.Client, used0 \cup {Least(fg), Least(ft)}) IN
                     IF fc = {} THEN ~fout[1].ok
                     ELSE LET fs == Free(fin.ranges.Steam,
                                         used0 \cup {Least(fg), Least(ft), Least(fc)})
                          IN  IF fs = {} THEN ~fout[1].ok
                              ELSE fout[1].ok =>
                                      fout[1].assign = [Game |-> Least(fg), SourceTV |-> Least(ft),
                                                        Client |-> Least(fc), Steam |-> Least(fs)]

\* C29 witness: the game and the auxiliary range are the same range of two
\* ports, the spectator range starts at a port in use; the game port is the
\* lower port, the auxiliary port the upper one and the spectator port the
\* one after the port in use
C29_Witness ==
    /\ fout # <<>> /\ fin.fn = "Allocate" /\ fout[1].ok
    /\ fin.ranges.Game = fin.ranges.Steam
    /\ fout[1].assign.Game = fin.ranges.Game.Start
    /\ fout[1].assign.Steam = fin.ranges.Game.Start + 1
    /\ fin.ranges.SourceTV.Start \in fin.nodePorts
    /\ fout[1].assign.SourceTV = fin.ranges.SourceTV.Start + 1

-----------------------------------------------------------------------------
(* Node-address discovery on its own                                       *)

\* Addresses a node may report: IPv4 and IPv6, external and internal, and a
\* host name
AddressChoices ==
    {NodeExt("e1"), NodeExt("e2"), NodeInt("i1"), NodeInt("i2"),
     NodeV6("ExternalIP", "e6"), NodeV6("InternalIP", "i6"), NodeV6("Hostname", "h")}

\* A node with no, one or two addresses
NodeChoices == UNION {[1..n -> AddressChoices] : n \in {0, 1, 2}}

\* A cluster of no, one or two nodes
NodeListChoices == UNION {[1..n -> NodeChoices] : n \in {0, 1, 2}}

NodeInputs ==
    [fn : {"pickNodeIP"}, nodes : NodeListChoices,
     pref : {IPExternalFirst, IPInternalOnly}, listFails : BOOLEAN]

InitNodes ==
    /\ AtRest
    /\ fin \in NodeInputs
    /\ fout = <<>>
    /\ run = NotStarted
    /\ peers = NoPeers

\* One call of pickNodeIP on the drawn node list
PickCall ==
    /\ fout = <<>>
    /\ fin.fn = "pickNodeIP"
    /\ fout' = <<pickNodeIP(fin.nodes, fin.pref, fin.listFails)>>
    /\ UNCHANGED <<cfg, nodes, steamUp, rounds, manual, outcome, stores,
                   pc, mi, ri, fetched, faults, ev, fin, run, peers>>

NextNodes == PickCall

SpecNodes == InitNodes /\ [][NextNodes]_vars

\* Positions, in the order of the scan, of the IPv4 addresses of a type
Positions(addrs, type) ==
    {i \in 1..Len(addrs) : addrs[i].type = type /\ addrs[i].v4}

\* C30: pickNodeIP scans the nodes and, within a node, its addresses in list
\* order and skips what is not IPv4.  Under external-first it returns the
\* first IPv4 external address of the whole scan and, only when there is
\* none, the first IPv4 internal address; under internal-only it returns the
\* first IPv4 internal address and never an external one; without a
\* candidate (or when the node list cannot be read) it returns an error.
C30_PickNodeIP ==
    (fout # <<>> /\ fin.fn = "pickNodeIP") =>
       LET addrs == Flatten(fin.nodes)
           ext == Positions(addrs, "ExternalIP")
           int == Positions(addrs, "InternalIP")
           picked == IF fin.pref = IPExternalFirst /\ ext # {} THEN <<addrs[Least(ext)].addr>>
                     ELSE IF int # {} THEN <<addrs[Least(int)].addr>>
                     ELSE <<>>
       IN  /\ fout[1].ok <=> (~fin.listFails /\ picked # <<>>)
           /\ fout[1].ok => fout[1].ip = picked[1]
           /\ (fout[1].ok /\ fin.pref = IPInternalOnly) =>
                 \A i \in 1..Len(addrs) :
                    addrs[i].type = "ExternalIP" => addrs[i].addr # fout[1].ip

\* C30 witness: under external-first the first node has an IPv4 internal
\* address and an IPv6 external one, the second node two IPv4 external
\* addresses: the first of these is returned
C30_Witness ==
    /\ fout # <<>> /\ fin.fn = "pickNodeIP" /\ fout[1].ok
    /\ fin.pref = IPExternalFirst
    /\ fin.nodes = << <<NodeInt("i1"), NodeV6("ExternalIP", "e6")>>, <<NodeExt("e2"), NodeExt("e1")>> >>
    /\ fout[1].ip = "e2"

-----------------------------------------------------------------------------
(* The renderer on its own: the calls made for each object                 *)

\* One call made to the cluster or to the REST mapper (rv: the resource
\* version an update carries, 0 otherwise)
Call(op, kind, rv) == [op |-> op, kind |-> kind, rv |-> rv]

\* Variant of restMapping: the lookup is retried, with a reset before each
\* retry, as long as it misses, up to two times
restMappingTwice(cache, discovery, kind) ==
    IF kind \in cache
    THEN [ok |-> TRUE, cache |-> cache, calls |-> <<Call("lookup", kind, 0)>>]
    ELSE IF kind \in discovery
    THEN [ok |-> TRUE, cache |-> discovery,
          calls |-> <<Call("lookup", kind, 0), Call("reset", kind, 0), Call("lookup", kind, 0)>>]
    ELSE [ok |-> FALSE, cache |-> discovery,
          calls |-> <<Call("lookup", kind, 0), Call("reset", kind, 0), Call("lookup", kind, 0),
                      Call("reset", kind, 0), Call("lookup", kind, 0)>>]

\* Renderer.restMapping: cache is what the REST mapper holds, discovery what
\* the API server would tell it after a reset
restMapping(cache, discovery, kind) ==
    IF kind \in cache
    THEN [ok |-> TRUE, cache |-> cache, calls |-> <<Call("lookup", kind, 0)>>]
    ELSE [ok |-> kind \in discovery, cache |-> discovery,
          calls |-> <<Call("lookup", kind, 0), Call("reset", kind, 0), Call("lookup", kind, 0)>>]

\* Renderer.applyObject on the cluster st (store: the objects with their
\* resource versions, cache: the REST mapper); f: the call that fails
applyObject(st, discovery, kind, content, f) ==
    LET m == restMapping(st.cache, discovery, kind) IN
    IF ~m.ok
    THEN [err |-> TRUE, store |-> st.store, cache |-> m.cache, calls |-> m.calls]
    ELSE IF f = "get"
    THEN [err |-> TRUE, store |-> st.store, cache |-> m.cache,
          calls |-> m.calls \o <<Call("get", kind, 0)>>]
    ELSE IF st.store[kind] = <<>>
    THEN [err |-> f = "create",
          store |-> IF f = "create" THEN st.store
                    ELSE [st.store EXCEPT ![kind] = <<[content |-> content, rv |-> 1]>>],
          cache |-> m.cache,
          calls |-> m.calls \o <<Call("get", kind, 0), Call("create", kind, 0)>>]
    ELSE [err |-> f = "update",
          store |-> IF f = "update" THEN st.store
                    ELSE [st.store EXCEPT ![kind] = <<[content |-> content, rv |-> st.store[kind][1].rv + 1]>>],
          cache |-> m.cache,
          calls |-> m.calls \o <<Call("get", kind, 0), Call("update", kind, st.store[kind][1].rv)>>]

\* Renderer.deleteObject; not found counts as deleted
deleteObject(st, discovery, kind, f) ==
    LET m == restMapping(st.cache, discovery, kind) IN
    IF ~m.ok
    THEN [err |-> TRUE, store |-> st.store, cache |-> m.cache, calls |-> m.calls]
    ELSE [err |-> f = "delete",
          store |-> IF f = "delete" THEN st.store ELSE [st.store EXCEPT ![kind] = <<>>],
          cache |-> m.cache,
          calls |-> m.calls \o <<Call("delete", kind, 0)>>]

\* The cluster after one more object, the calls added to those made so far
After(st, r) == [err |-> r.err, store |-> r.store, cache |-> r.cache, calls |-> st.calls \o r.calls]

\* Variant of ApplyFrom: the loop goes on after an object that failed
RECURSIVE ApplyFromAll(_, _, _, _, _, _, _)
ApplyFromAll(st, discovery, order, values, i, failAt, f) ==
    IF i > Len(order) THEN st
    ELSE LET r == applyObject(st, discovery, order[i], renderedContent(values, order[i])[1],
                              IF i = failAt THEN f ELSE "none")
         IN  ApplyFromAll([After(st, r) EXCEPT !.err = st.err \/ r.err], discovery, order, values, i + 1, failAt, f)

\* Renderer.Apply, the loop from the i-th rendered object on
RECURSIVE ApplyFrom(_, _, _, _, _, _, _)
ApplyFrom(st, discovery, order, values, i, failAt, f) ==
    IF i > Len(order) THEN st
    ELSE LET r == applyObject(st, discovery, order[i], renderedContent(values, order[i])[1],
                              IF i = failAt THEN f ELSE "none")
         IN  IF r.err THEN After(st, r)
             ELSE ApplyFrom(After(st, r), discovery, order, values, i + 1, failAt, f)

\* Renderer.Delete, the loop from the i-th rendered object down; failAt counts
\* the deletes made
RECURSIVE DeleteFrom(_, _, _, _, _, _)
DeleteFrom(st, discovery, order, i, failAt, f) ==
    IF i < 1 THEN st
    ELSE LET r == deleteObject(st, discovery, order[i],
                               IF Len(order) - i + 1 = failAt THEN f ELSE "none")
         IN  IF r.err THEN After(st, r)
             ELSE DeleteFrom(After(st, r), discovery, order, i - 1, failAt, f)

\* The state the bundles of the drawn calls are built from
RenderState ==
    [Ports |-> [Game |-> 10, SourceTV |-> 12, Client |-> 14, Steam |-> 8],
     Password |-> "pwA", RCON |-> "rcA", Map |-> <<"m">>, Token |-> "static"]

\* What the cluster may hold of an object before a call: nothing, or an
\* object of older content at some resource version
StoredChoices == {<<>>, <<[content |-> <<>>, rv |-> 1]>>, <<[content |-> <<>>, rv |-> 4]>>}

RenderFaults == {"get", "create", "update", "delete"}

RenderInputs ==
    {i \in [fn : {"Apply", "Delete", "ApplyDelete"}, hostNetwork : BOOLEAN,
            store : [Kinds -> StoredChoices], cache : SUBSET Kinds, discovery : SUBSET Kinds,
            failAt : {0, 1, 2}, f : {"none"} \cup RenderFaults] :
       /\ (i.failAt = 0) <=> (i.f = "none")
       /\ i.fn = "ApplyDelete" => i.failAt = 0 /\ i.discovery = Kinds}

InitRender ==
    /\ AtRest
    /\ fin \in RenderInputs
    /\ fout = <<>>
    /\ run = NotStarted
    /\ peers = NoPeers

\* The cluster a call starts on
Drawn == [err |-> FALSE, store |-> fin.store, cache |-> fin.cache, calls |-> <<>>]

\* What a call returned and the render order it worked on
Returned(r, order) == [err |-> r.err, store |-> r.store, cache |-> r.cache, calls |-> r.calls, order |-> order]

\* One call of Renderer.Apply; perm: the order in which the iteration over
\* the manifest map visits the templates in this call
ApplyCall ==
    /\ fout = <<>>
    /\ fin.fn = "Apply"
    /\ \E perm \in KindOrders :
          LET values == buildValues(RenderState, fin.hostNetwork, <<"d">>)
              order  == renderObjects(values, perm)
          IN  fout' = <<Returned(ApplyFrom(Drawn, fin.discovery, order, values, 1, fin.failAt, fin.f), order)>>
    /\ UNCHANGED <<cfg, nodes, steamUp, rounds, manual, outcome, stores,
                   pc, mi, ri, fetched, faults, ev, fin, run, peers>>

\* One call of Renderer.Delete
DeleteObjectsCall ==
    /\ fout = <<>>
    /\ fin.fn = "Delete"
    /\ \E perm \in KindOrders :
          LET values == buildValues(RenderState, fin.hostNetwork, <<"d">>)
              order  == renderObjects(values, perm)
          IN  fout' = <<Returned(DeleteFrom(Drawn, fin.discovery, order, Len(order), fin.failAt, fin.f), order)>>
    /\ UNCHANGED <<cfg, nodes, steamUp, rounds, manual, outcome, stores,
                   pc, mi, ri, fetched, faults, ev, fin, run, peers>>

\* Renderer.Apply, then Renderer.Delete for the same release and bundle:
\* each call renders for itself
ApplyDeleteCall ==
    /\ fout = <<>>
    /\ fin.fn = "ApplyDelete"
    /\ \E permA \in KindOrders, permD \in KindOrders :
          LET values == buildValues(RenderState, fin.hostNetwork, <<"d">>)
              orderA == renderObjects(values, permA)
              orderD == renderObjects(values, permD)
              a == ApplyFrom(Drawn, fin.discovery, orderA, values, 1, 0, "none")
              d == DeleteFrom([a EXCEPT !.calls = <<>>], fin.discovery, orderD, Len(orderD), 0, "none")
          IN  fout' = <<Returned(a, orderA), Returned(d, orderD)>>
    /\ UNCHANGED <<cfg, nodes, steamUp, rounds, manual, outcome, stores,
                   pc, mi, ri, fetched, faults, ev, fin, run, peers>>

NextRender ==
    \/ ApplyCall
    \/ DeleteObjectsCall
    \/ ApplyDeleteCall

SpecRender == InitRender /\ [][NextRender]_vars

\* The calls of a call sequence that concern one kind of object
CallsOf(calls, kind) ==
    LET about(c) == c.kind = kind IN SelectSeq(calls, about)

\* The calls made to the cluster, those to the REST mapper left out
ClusterCalls(calls) ==
    LET cluster(c) == c.op \notin {"lookup", "reset"} IN SelectSeq(calls, cluster)

OpsOf(calls) == [i \in 1..Len(calls) |-> calls[i].op]

\* Position of a kind in a render order
IndexIn(order, kind) == CHOOSE i \in 1..Len(order) : order[i] = kind

\* The object of that kind is in the cluster as rendered
Applied(r, kind) ==
    /\ r.store[kind] # <<>>
    /\ r.store[kind] # fin.store[kind]
    /\ r.store[kind][1].content =
          renderedContent(buildValues(RenderState, fin.hostNetwork, <<"d">>), kind)[1]

\* C31: Apply handles the rendered objects one after another; each object is
\* read, created when not found and otherwise updated with the resource
\* version just read; at the first object whose mapping, read, create or
\* update fails Apply returns the error and no later object is read, created
\* or updated in the call.
C31_ApplyStopsAtFirstFailure ==
    (fout # <<>> /\ fin.fn = "Apply") =>
       LET r == fout[1]
           order == r.order
           done == {i \in 1..Len(order) : Applied(r, order[i])}
       IN  /\ \A p, q \in 1..Len(r.calls) :
                 p < q => IndexIn(order, r.calls[p].kind) <= IndexIn(order, r.calls[q].kind)
           /\ \A i \in 1..Len(order) :
                 LET mine == ClusterCalls(CallsOf(r.calls, order[i])) IN
                    /\ OpsOf(mine) \in {<<>>, <<"get">>, <<"get", "create">>, <<"get", "update">>}
                    /\ Len(mine) = 2 =>
                          /\ mine[2].op = "create" <=> fin.store[order[i]] = <<>>
                          /\ mine[2].op = "update" => mine[2].rv = fin.store[order[i]][1].rv
                    /\ i \in done => Len(mine) = 2
                    /\ i \notin done => r.store[order[i]] = fin.store[order[i]]
           /\ ~r.err <=> done = 1..Len(order)
           /\ r.err =>
                 \E n \in 1..Len(order) :
                    /\ done = 1..(n - 1)
                    /\ \A i \in (n + 1)..Len(order) : CallsOf(r.calls, order[i]) = <<>>

\* C31 witness: the first of two rendered objects was read and its update
\* failed; the second, absent from the cluster, was neither read nor created
C31_Witness ==
    /\ fout # <<>> /\ fin.fn = "Apply" /\ fout[1].err
    /\ Len(fout[1].order) = 2
    /\ OpsOf(ClusterCalls(CallsOf(fout[1].calls, fout[1].order[1]))) = <<"get", "update">>
    /\ CallsOf(fout[1].calls, fout[1].order[2]) = <<>>
    /\ fin.store[fout[1].order[2]] = <<>>
    /\ fout[1].store = fin.store

\* The kinds of the objects a call sequence writes or deletes, in the order
\* of the calls
KindsWritten(calls) ==
    LET written(c) == c.op \in {"create", "update", "delete"}
        w == SelectSeq(calls, written)
    IN  [i \in 1..Len(w) |-> w[i].kind]

Reverse(s) == [i \in 1..Len(s) |-> s[Len(s) - i + 1]]

\* C32: Delete issues a delete for every rendered object in reverse render
\* order: for the same release and bundle the order in which Delete removes
\* the objects is the exact reverse of the order in which Apply created or
\* updated them, for every pair of calls.
C32_DeleteReversesApply ==
    (fout # <<>> /\ fin.fn = "ApplyDelete") =>
       /\ KindsWritten(fout[2].calls) = Reverse(fout[2].order)
       /\ KindsWritten(fout[2].calls) = Reverse(KindsWritten(fout[1].calls))

\* The calls made to the REST mapper
MapperCalls(calls) ==
    LET mapper(c) == c.op \in {"lookup", "reset"} IN SelectSeq(calls, mapper)

\* C33: resolving the kind of an object resets the REST-mapper cache at most
\* once: a lookup that succeeds at once causes no reset, a lookup that misses
\* causes exactly one reset followed by exactly one retry, and when the
\* retry misses too the lookup fails and the object is neither applied nor
\* deleted.
C33_OneResetPerLookup ==
    (fout # <<>> /\ fin.fn \in {"Apply", "Delete"}) =>
       LET r == fout[1]
           order == r.order
           first == IF fin.fn = "Apply" THEN order[1] ELSE order[Len(order)]
       IN  /\ \A i \in 1..Len(order) :
                 LET mine == CallsOf(r.calls, order[i]) IN
                    /\ OpsOf(MapperCalls(mine)) \in {<<>>, <<"lookup">>, <<"lookup", "reset", "lookup">>}
                    /\ ClusterCalls(mine) # <<>> => mine[1].op = "lookup"
           /\ first \in fin.cache =>
                 OpsOf(MapperCalls(CallsOf(r.calls, first))) = <<"lookup">>
           /\ first \notin fin.cache =>
                 OpsOf(MapperCalls(CallsOf(r.calls, first))) = <<"lookup", "reset", "lookup">>
           /\ first \notin (fin.cache \cup fin.discovery) =>
                 /\ r.err
                 /\ OpsOf(r.calls) = <<"lookup", "reset", "lookup">>
                 /\ r.store = fin.store

\* C33 witness: Delete missed the kind of its first object twice, with one
\* reset in between, and returned the error; the object is still there
C33_Witness ==
    /\ fout # <<>> /\ fin.fn = "Delete" /\ fout[1].err
    /\ OpsOf(fout[1].calls) = <<"lookup", "reset", "lookup">>
    /\ fin.store[fout[1].order[Len(fout[1].order)]] # <<>>
    /\ fout[1].store = fin.store

-----------------------------------------------------------------------------
(* Identity cleanup, account by account                                    *)

\* Variant of deleteMatching: the loop ends at the first delete that fails
RECURSIVE deleteMatchingStop(_, _, _, _, _)
deleteMatchingStop(list, memo, i, failing, tried) ==
    IF i > Len(list) THEN [list |-> list, tried |-> tried]
    ELSE IF list[i].memo = memo /\ ~list[i].deleted
    THEN IF i \in failing
         THEN [list |-> list, tried |-> Append(tried, i)]
         ELSE deleteMatchingStop([list EXCEPT ![i].deleted = TRUE], memo, i + 1, failing, Append(tried, i))
    ELSE deleteMatchingStop(list, memo, i + 1, failing, tried)

\* cleanupSRCDSToken, the loop over the listed accounts from the i-th on:
\* DeleteAccount for every account of the memo that is not marked deleted;
\* failing: the accounts whose delete fails, tried: the deletes attempted
RECURSIVE deleteMatching(_, _, _, _, _)
deleteMatching(list, memo, i, failing, tried) ==
    IF i > Len(list) THEN [list |-> list, tried |-> tried]
    ELSE IF list[i].memo = memo /\ ~list[i].deleted
    THEN deleteMatching(IF i \in failing THEN list ELSE [list EXCEPT ![i].deleted = TRUE],
                        memo, i + 1, failing, Append(tried, i))
    ELSE deleteMatching(list, memo, i + 1, failing, tried)

\* cleanupSRCDSToken on the registry's account list
cleanupAccountList(list, memo, enabled, listFails, failing) ==
    IF ~enabled THEN [err |-> FALSE, list |-> list, tried |-> <<>>]
    ELSE IF listFails THEN [err |-> TRUE, list |-> list, tried |-> <<>>]
    ELSE LET d == deleteMatching(list, memo, 1, failing, <<>>) IN
         [err |-> FALSE, list |-> d.list, tried |-> d.tried]

\* teardownRound after cleanupSRCDSToken: an error is logged, nil returned
teardownReturn(cleanupErr) == [ok |-> TRUE, warned |-> cleanupErr]

\* An account of the registry listing: its memo, the memo of the round or
\* another one, and whether it is marked deleted
AccountChoices == [memo : {"udl-1-1", "udl-1-2"}, deleted : BOOLEAN]

\* Listings of up to three accounts
AccountListChoices == UNION {[1..n -> AccountChoices] : n \in {0, 1, 2, 3}}

AccountInputs ==
    [fn : {"cleanupSRCDSToken"}, list : AccountListChoices, memo : {"udl-1-1"},
     enabled : BOOLEAN, listFails : BOOLEAN, failing : SUBSET {1, 2, 3}]

InitAccounts ==
    /\ AtRest
    /\ fin \in AccountInputs
    /\ fout = <<>>
    /\ run = NotStarted
    /\ peers = NoPeers

\* The end of a teardown: cleanupSRCDSToken on the drawn listing, then the
\* return of teardownRound
CleanupCall ==
    /\ fout = <<>>
    /\ fin.fn = "cleanupSRCDSToken"
    /\ LET c == cleanupAccountList(fin.list, fin.memo, fin.enabled, fin.listFails, fin.failing) IN
          fout' = <<[err |-> c.err, list |-> c.list, tried |-> c.tried, ok |-> teardownReturn(c.err).ok]>>
    /\ UNCHANGED <<cfg, nodes, steamUp, rounds, manual, outcome, stores,
                   pc, mi, ri, fetched, faults, ev, fin, run, peers>>

NextAccounts == CleanupCall

SpecAccounts == InitAccounts /\ [][NextAccounts]_vars

\* The listed accounts of the memo that are not marked deleted
Matching(list, memo) == {i \in 1..Len(list) : list[i].memo = memo /\ ~list[i].deleted}

\* C34: identity cleanup on teardown attempts the deletion of every listed
\* account that is not marked deleted and has the memo of the round, and of
\* no other account; a listing that fails or a delete that fails never makes
\* teardown fail, and a failed delete does not stop the deletion of the
\* matching accounts after it.
C34_CleanupEveryMatching ==
    (fout # <<>> /\ fin.fn = "cleanupSRCDSToken") =>
       LET r == fout[1]
           tried == {r.tried[i] : i \in 1..Len(r.tried)}
           wanted == IF fin.enabled /\ ~fin.listFails THEN Matching(fin.list, fin.memo) ELSE {}
       IN  /\ r.ok
           /\ tried = wanted
           /\ Len(r.tried) = Cardinality(wanted)
           /\ \A i, j \in 1..Len(r.tried) : i < j => r.tried[i] < r.tried[j]
           /\ \A i \in 1..Len(fin.list) :
                 /\ r.list[i].memo = fin.list[i].memo
                 /\ r.list[i].deleted <=>
                       (fin.list[i].deleted \/ (i \in wanted /\ i \notin fin.failing))

\* C34 witness: of three accounts of the round's memo the delete of the
\* first failed; the other two were deleted and teardown succeeded
C34_Witness ==
    /\ fout # <<>> /\ fin.fn = "cleanupSRCDSToken" /\ fout[1].ok
    /\ Len(fin.list) = 3 /\ Matching(fin.list, fin.memo) = {1, 2, 3}
    /\ fin.failing = {1}
    /\ fout[1].tried = <<1, 2, 3>>
    /\ ~fout[1].list[1].deleted /\ fout[1].list[2].deleted /\ fout[1].list[3].deleted

-----------------------------------------------------------------------------
(* The current map through one ensure                                      *)

MapKey == <<1, 1>>

\* What FetchMapName may answer for the round: an error, or a name that is
\* empty, blank, plain or has blanks around
MapLookups ==
    {[err |-> TRUE, name |-> <<>>]} \cup {[err |-> FALSE, name |-> n] : n \in MapChoices}

\* DEFAULT_MAP values that are not empty after trimming
DefaultMapChoices == {<<"d">>, <<" ", "d">>}

\* The state secret ensure finds: none, or one whose map key holds any of the
\* map choices (a key that is missing reads as the empty one)
StoredMaps ==
    {<<>>} \cup
    {<<[password |-> "pwA", rcon |-> "rcA", game_port |-> Itoa(10), sourcetv_port |-> Itoa(12),
        client_port |-> Itoa(14), steam_port |-> Itoa(8), map |-> m, token |-> "static"]>> :
        m \in MapChoices}

MapInputs == [fn : {"ensureRound"}, lookup : MapLookups]

InitMaps ==
    /\ rounds = OneRound
    /\ nodes = Cluster
    /\ \E d \in DefaultMapChoices, h \in BOOLEAN :
          cfg = [Plain EXCEPT !.DefaultMap = d, !.HostNetwork = h]
    /\ steamUp = TRUE
    /\ faults = TRUE
    /\ manual = [m \in MatchIDs |-> FALSE]
    /\ outcome = [k \in Keys |-> FALSE]
    /\ details = [k \in Keys |-> <<>>]
    /\ notes = [k \in Keys |-> 0]
    /\ \E s \in StoredMaps : secrets = [k \in Keys |-> IF k = MapKey THEN s ELSE <<>>]
    /\ objects = [k \in Keys |-> NoObjects]
    /\ accounts = [k \in Keys |-> 0]
    /\ pc = "idle"
    /\ mi = 0
    /\ ri = 0
    /\ fetched = NothingFetched
    /\ ev = Ev("init", NoKey, "none", FALSE, NoOutcome, <<>>, <<>>, <<>>)
    /\ fin \in MapInputs
    /\ fout = <<>>
    /\ run = NotStarted
    /\ peers = NoPeers

\* reconcileMatch for the round from the map lookup on, with the drawn
\* answer of FetchMapName, and the ensureRound it calls
EnsureMapCall ==
    /\ fout = <<>>
    /\ fin.fn = "ensureRound"
    /\ \E f \in EnsureFaults, perm \in KindOrders :
          LET mapName == IF fin.lookup.err THEN cfg.DefaultMap ELSE fin.lookup.name
              res     == ensureRound(MapKey, mapName, f, perm, "pwB", "rcB")
          IN  /\ Commit(MapKey, res)
              /\ ev' = Ev("round", MapKey, "ensure", TRUE, res, mapName, details[MapKey], <<"map", "details">>)
              /\ fout' = <<[stored |-> secrets[MapKey]]>>
    /\ UNCHANGED <<cfg, nodes, steamUp, rounds, manual, outcome,
                   pc, mi, ri, fetched, faults, fin, run, peers>>

NextMaps == EnsureMapCall

SpecMaps == InitMaps /\ [][NextMaps]_vars

\* The first of the candidates that is not empty after trimming
FirstNonBlank(candidates) ==
    LET good == {i \in 1..Len(candidates) : TrimSpace(candidates[i]) # <<>>}
    IN  candidates[CHOOSE i \in good : \A j \in good : i <= j]

\* C35: the current map is never empty.  With a default map that is not empty
\* after trimming, the state secret an ensure writes and the
\* ConnectionDetails row it upserts hold a map that is not empty after
\* trimming, whether the round's map lookup failed or gave an empty or blank
\* name and whether the stored map was empty or missing; on an existing
\* state the map chosen is the first of (resolved map of the round, stored
\* map, default map) that is not empty after trimming.
C35_MapNeverEmpty ==
    (fout # <<>> /\ fin.fn = "ensureRound") =>
       LET wrote  == InTrace("persist", ev.trace)
           upsert == InTrace("upsert", ev.trace)
           before == fout[1].stored
           chosen == TrimSpace(FirstNonBlank(<<ev.map, before[1].map, cfg.DefaultMap>>))
       IN  /\ wrote => secrets[MapKey] # <<>> /\ TrimSpace(secrets[MapKey][1].map) # <<>>
           /\ upsert => details[MapKey] # <<>> /\ TrimSpace(details[MapKey][1].Map) # <<>>
           /\ (wrote /\ before # <<>>) => secrets[MapKey][1].map = chosen
           /\ (upsert /\ before # <<>>) => details[MapKey][1].Map = chosen

\* C35 witness: the stored map was empty and the lookup gave a blank name;
\* the ensure wrote the default map to the secret and to the row
C35_Witness ==
    /\ fout # <<>> /\ fin.fn = "ensureRound"
    /\ fout[1].stored # <<>> /\ fout[1].stored[1].map = <<>>
    /\ ~fin.lookup.err /\ fin.lookup.name = <<" ">>
    /\ ev.ok
    /\ secrets[MapKey][1].map = TrimSpace(cfg.DefaultMap)
    /\ details[MapKey] # <<>> /\ details[MapKey][1].Map = TrimSpace(cfg.DefaultMap)

-----------------------------------------------------------------------------
(* The state secret outlives what it describes                             *)

\* Round k has a ConnectionDetails row or an applied object
Serving(k) == details[k] # <<>> \/ objects[k] # NoObjects

\* C36: with the controller acting alone (ticks, failing steps and restarts,
\* nothing deleted from outside), a release has a ConnectionDetails row or
\* applied objects only while its state secret exists: ensure writes the
\* secret first and teardown deletes it after the objects and the row.
C36_SecretOutlivesRelease ==
    \A k \in Keys : Serving(k) => secrets[k] # <<>>

\* C36 witness: a teardown deleted the objects and failed to delete the row;
\* the row is still there and so is the secret
C36_Witness ==
    /\ ev.kind = "round" /\ ev.op = "teardown" /\ ev.hit = "unpublish"
    /\ objects[ev.k] = NoObjects
    /\ details[ev.k] # <<>>
    /\ secrets[ev.k] # <<>>

-----------------------------------------------------------------------------
(* Ports across the rounds                                                 *)

\* Two rounds of one match with room for two servers in every range, with
\* and without host networking; no match is manual-not-done
InitShare ==
    /\ InitIn({Deployment(Config(TRUE, FALSE, FALSE, FALSE, "static", NoFilter, IPExternalFirst),
                          TwoRounds, Cluster),
               Deployment(Config(FALSE, FALSE, FALSE, FALSE, "static", NoFilter, IPExternalFirst),
                          TwoRounds, Cluster)})
    /\ manual = [m \in MatchIDs |-> FALSE]
    /\ fin = <<>>
    /\ fout = <<>>
    /\ run = NotStarted
    /\ peers = NoPeers

NextShare ==
    \/ Reconcile
    \/ ReconcileMatch
    \/ ReconcileRound /\ FixedSecrets
    \/ Restart
    \/ RecordOutcome

SpecShare == InitShare /\ [][NextShare]_vars

\* The set of the four ports a secret stores
PortSet(sec) ==
    LET p == StoredPorts(sec) IN {p.Game, p.SourceTV, p.Client, p.Steam}

\* C37: no two state secrets that exist at the same time hold a common
\* port: with a single reconciler, also when a secret was persisted and the
\* apply of its manifests failed, and also with host networking, where no
\* service is rendered, the port sets in the secrets of two releases are
\* disjoint.
C37_SecretsShareNoPort ==
    \A k1, k2 \in Keys :
       (k1 # k2 /\ secrets[k1] # <<>> /\ secrets[k2] # <<>>) =>
          PortSet(secrets[k1][1]) \cap PortSet(secrets[k2][1]) = {}

-----------------------------------------------------------------------------
(* Accounts of a round in the identity registry                            *)

\* C38: with automatic token minting, at any time at most one non-deleted
\* account of the identity registry carries the memo of a given (match,
\* round): an ensure that mints an account and then fails to persist the
\* secret does not make a later tick mint a second account for the round.
C38_OneAccountPerRound ==
    \A k \in Keys : accounts[k] <= 1

-----------------------------------------------------------------------------
(* Notifications of a published round                                      *)

\* An ensure of the current round that publishes its ConnectionDetails row,
\* absent before, with notifications enabled and no notification insert failing
FirstPublication ==
    /\ RoundStep /\ ev'.op = "ensure"
    /\ cfg.NotificationsEnabled
    /\ details[CurrentRound] = <<>> /\ details'[CurrentRound] # <<>>
    /\ ev'.hit \notin {"notify1", "notify2"}

\* C39: with notifications enabled and the inserts succeeding, a round whose
\* ConnectionDetails row is published for a newly created server has its
\* roster notifications inserted by the end of the ensure that first
\* publishes the row, also when an earlier ensure persisted the secret,
\* failed at apply, node-address discovery or upsert, and a later tick
\* publishes the row.
C39_PublishedRoundNotified ==
    [][FirstPublication => notes'[CurrentRound] >= Len(Recipients(CurrentRound[1]))]_vars

====
